---- MODULE Spec2Model ----
(***************************************************************************)
(* Model of the claude-extension-boilerplate MCP server: the tool registry *)
(* and CallTool / ListTools dispatcher of server/index.js, the three tools *)
(* (example_tool, file_processor, system_info) and the path guard they     *)
(* share.  Text is modelled as sequences of one-character strings so that  *)
(* path.resolve, String.split, String.trim and String.startsWith are       *)
(* computed character by character, as the code computes them.             *)
(***************************************************************************)
EXTENDS Integers, Sequences, FiniteSets, TLC

VARIABLES
  env,        \* process.env.ALLOWED_PATHS: a text, or Undefined
  tools,      \* ExtensionServer.tools: the registered tool names, in insertion order
  running,    \* the process is alive
  exitCause,  \* why the process ended ("none" while it runs)
  request,    \* the last request the host sent
  response,   \* the outcomes the handler produced for that request, in order
  executed,   \* names of the tools whose execute ran for that request
  bodyRan,    \* the operation body (after input validation) ran for that request
  guard,      \* the calls of isPathAllowed made for that request, in order
  fsCalls,    \* the filesystem calls made for that request, in order
  envelope,   \* the envelope the tool's execute resolved to (<<>> if none)
  thrown,     \* what the tool's execute threw for that request (NoError if nothing)
  caught,     \* the failure the tool's own catch turned into an envelope (NoError if none)
  faulted,    \* some call's execute has thrown or returned a failure envelope
  phase,      \* how far startup got: "boot", "constructed", "connected" or "failed"
  startEnv,   \* process.env.ALLOWED_PATHS as it was when the server was constructed
  declared,   \* the tools array registerTools() of tools/index.js is written with
  pending     \* the calls in flight when the host pipelines requests, by slot

vars == <<env, tools, running, exitCause, request, response, executed, bodyRan,
          guard, fsCalls, envelope, thrown, caught, faulted,
          phase, startEnv, declared, pending>>

-----------------------------------------------------------------------------
(* Bounds of the model                                                     *)

\* longest candidate path, in segments
MaxSegs == 3

\* most requests the host has in flight at once
MaxInFlight == 2

-----------------------------------------------------------------------------
(* Text helpers                                                            *)

\* JavaScript's undefined
Undefined == "undefined"

SLASH == "/"

\* String.prototype.startsWith
StartsWith(s, pre) ==
  /\ Len(pre) <= Len(s)
  /\ SubSeq(s, 1, Len(pre)) = pre

\* String.prototype.split on a one-character separator: the texts between
\* one separator (or the start) and the next (or the end)
Split(s, sep) ==
  LET seps == {i \in 1..Len(s) : s[i] = sep}
      n == Cardinality(seps)
      cut == [k \in 0..(n + 1) |->
                IF k = 0 THEN 0
                ELSE IF k = n + 1 THEN Len(s) + 1
                ELSE CHOOSE i \in seps : Cardinality({j \in seps : j <= i}) = k]
  IN  SelectSeq([k \in 1..(n + 1) |-> SubSeq(s, cut[k - 1] + 1, cut[k] - 1)],
                LAMBDA x : TRUE)

\* Array.prototype.join on a one-character separator (the two halves of the
\* array joined, and these joined)
RECURSIVE Join(_, _)
Join(parts, sep) ==
  IF Len(parts) = 0 THEN <<>>
  ELSE IF Len(parts) = 1 THEN parts[1]
  ELSE Join(SubSeq(parts, 1, Len(parts) \div 2), sep) \o <<sep>>
         \o Join(SubSeq(parts, Len(parts) \div 2 + 1, Len(parts)), sep)

\* String.prototype.trim (the only white space of the model is the blank)
RECURSIVE Trim(_)
Trim(s) ==
  IF Len(s) = 0 THEN s
  ELSE IF s[1] = " " THEN Trim(Tail(s))
  ELSE IF s[Len(s)] = " " THEN Trim(SubSeq(s, 1, Len(s) - 1))
  ELSE s

-----------------------------------------------------------------------------
(* node:path (POSIX)                                                       *)

\* process.cwd()
Cwd == <<"/", "b">>

\* path.isAbsolute
IsAbsolute(p) == Len(p) > 0 /\ p[1] = SLASH

\* normalizeString of node:path on a run of segments: empty and "." segments
\* are dropped and ".." removes the segment before it. Of a run this leaves
\* the number of ".." that reach past its start and the names that remain;
\* a run is its two halves, the ".." of the second reaching into the names
\* of the first
RECURSIVE NormRun(_)
NormRun(segs) ==
  IF Len(segs) = 0 THEN [up |-> 0, names |-> <<>>]
  ELSE IF Len(segs) = 1
    THEN IF segs[1] = <<>> \/ segs[1] = <<".">> THEN [up |-> 0, names |-> <<>>]
         ELSE IF segs[1] = <<".", ".">> THEN [up |-> 1, names |-> <<>>]
         ELSE [up |-> 0, names |-> <<segs[1]>>]
  ELSE LET l == NormRun(SubSeq(segs, 1, Len(segs) \div 2))
           r == NormRun(SubSeq(segs, Len(segs) \div 2 + 1, Len(segs)))
       IN  IF r.up <= Len(l.names)
             THEN [up |-> l.up,
                   names |-> SubSeq(l.names, 1, Len(l.names) - r.up) \o r.names]
             ELSE [up |-> l.up + r.up - Len(l.names), names |-> r.names]

\* normalizeString for an absolute path: at the root ".." is dropped
NormSegs(segs) == NormRun(segs).names

\* the segments of the absolute, normalized form of p
ResolvedSegs(p) ==
  LET full == IF IsAbsolute(p) THEN p
              ELSE IF Len(p) = 0 THEN Cwd
              ELSE Cwd \o <<SLASH>> \o p
  IN  NormSegs(Split(full, SLASH))

\* path.resolve with one argument
Resolve(p) == <<SLASH>> \o Join(ResolvedSegs(p), SLASH)

-----------------------------------------------------------------------------
(* Inputs of the model                                                     *)

A  == <<"a">>
B  == <<"b">>
AB == <<"a", "b">>
DOT == <<".">>
DOTDOT == <<".", ".">>

\* absolute path made of the given segments
P(segs) == <<SLASH>> \o Join(segs, SLASH)

\* segments candidate paths are built from
Segs == {A, AB, B, DOTDOT}

SegSeqs == UNION {[1..n -> Segs] : n \in 1..MaxSegs}

\* candidate paths a host may send: absolute and relative, with ".."
\* segments, the root, the empty text, two paths with a "." segment and a
\* directory four levels down
CandidatePaths ==
  {<<>>, <<SLASH>>, DOT, P(<<A, DOT, A>>), P(<<AB, B, B, B>>)}
    \cup {P(ss) : ss \in SegSeqs}
    \cup {Join(ss, SLASH) : ss \in SegSeqs}

\* the text of each variable of process.env other than ALLOWED_PATHS, one
\* letter that tells whose text it is
EnvText ==
  ("HOME" :> <<"H">>) @@ ("PATH" :> <<"P">>) @@ ("USER" :> <<"U">>)
    @@ ("USERNAME" :> <<"N">>) @@ ("API_KEY" :> <<"K">>) @@ ("DB_PASSWORD" :> <<"W">>)

\* the variables other than ALLOWED_PATHS that the servers and the pipelined
\* requests run with
OtherEnv == [k \in {"HOME", "PATH", "API_KEY", "DB_PASSWORD"} |-> EnvText[k]]

\* process.env: ALLOWED_PATHS (unset, or set to a text) and the others
EnvUnset == [defined |-> FALSE, value |-> <<>>, others |-> OtherEnv]
EnvOf(text) == [defined |-> TRUE, value |-> text, others |-> OtherEnv]

\* values of process.env.ALLOWED_PATHS: unset, empty, one root, one root with
\* a trailing comma, two roots with blanks around the second
EnvValues ==
  { EnvUnset,
    EnvOf(<<>>),
    EnvOf(P(<<A>>)),
    EnvOf(P(<<A>>) \o <<",">>),
    EnvOf(P(<<A>>) \o <<",", " ">> \o P(<<AB>>) \o <<" ">>) }

\* process environments: any of the variables set or unset, USER also set
\* to the empty text, ALLOWED_PATHS unset or one root
ProcessEnvs ==
  { [a EXCEPT !.others = [k \in S |-> IF k = "USER" /\ blank THEN <<>> ELSE EnvText[k]]] :
      a \in {EnvUnset, EnvOf(P(<<A>>))}, S \in SUBSET DOMAIN EnvText, blank \in BOOLEAN }

-----------------------------------------------------------------------------
(* The filesystem the tools run against (node:fs/promises)                  *)

Dir(children, readable) ==
  [type |-> "directory", size |-> 4096, readable |-> readable, children |-> children]
File(size) ==
  [type |-> "file", size |-> size, readable |-> TRUE, children |-> <<>>]
\* an entry that is neither a regular file nor a directory
Socket ==
  [type |-> "socket", size |-> 0, readable |-> TRUE, children |-> <<>>]

\* k nested directories named b
Bs(k) == [i \in 1..k |-> B]

\* the tree, keyed by the segments of the absolute path; children are in
\* the order readdir returns them. Below /ab lie a directory that cannot be
\* read and a chain of thirteen nested directories with a file at its end;
\* /a/ab/b holds a file and a socket
FS ==
  ( <<>>          :> Dir(<<A, AB, B>>, TRUE) )
  @@ ( <<A>>        :> Dir(<<A, AB, B>>, TRUE) )
  @@ ( <<A, A>>     :> File(2) )
  @@ ( <<A, AB>>    :> Dir(<<A, B>>, TRUE) )
  @@ ( <<A, AB, A>> :> File(2000000) )
  @@ ( <<A, AB, B>> :> Dir(<<A, AB>>, TRUE) )
  @@ ( <<A, AB, B, A>> :> File(4) )
  @@ ( <<A, AB, B, AB>> :> Socket )
  @@ ( <<A, B>>     :> Dir(<<>>, FALSE) )
  @@ ( <<AB>>       :> Dir(<<A, AB, B>>, TRUE) )
  @@ ( <<AB, A>>    :> File(3) )
  @@ ( <<AB, AB>>   :> Dir(<<>>, FALSE) )
  @@ [ p \in {<<AB>> \o Bs(k) : k \in 1..13} |->
         Dir(IF Len(p) < 14 THEN <<B>> ELSE <<A>>, TRUE) ]
  @@ ( (<<AB>> \o Bs(13) \o <<A>>) :> File(5) )
  @@ ( <<B>>        :> Dir(<<A>>, TRUE) )
  @@ ( <<B, A>>     :> File(1) )

\* an error object: constructor name, message (a format text and its
\* argument) and the code property (Undefined unless the filesystem set it)
Msg(text, arg) == [text |-> text, arg |-> arg]
Err(ctor, text, arg, code) == [ctor |-> ctor, message |-> Msg(text, arg), code |-> code]
NoError == Err("none", "", <<>>, Undefined)

\* the kernel's walk of a path, one component at a time: every component
\* but the last must be a directory, "." stays, ".." goes to the parent
RECURSIVE Walk(_, _)
Walk(segs, at) ==
  IF Len(segs) = 0 THEN [ok |-> TRUE, at |-> at, code |-> Undefined]
  ELSE IF FS[at].type # "directory" THEN [ok |-> FALSE, at |-> at, code |-> "ENOTDIR"]
  ELSE LET s == Head(segs) IN
       IF s = <<>> \/ s = DOT THEN Walk(Tail(segs), at)
       ELSE IF s = DOTDOT
         THEN Walk(Tail(segs), IF Len(at) = 0 THEN at ELSE SubSeq(at, 1, Len(at) - 1))
       ELSE IF Append(at, s) \notin DOMAIN FS
         THEN [ok |-> FALSE, at |-> at, code |-> "ENOENT"]
       ELSE Walk(Tail(segs), Append(at, s))

\* where the kernel ends up for the path p given to a filesystem call
Lookup(p) ==
  IF Len(p) = 0 THEN [ok |-> FALSE, at |-> <<>>, code |-> "ENOENT"]
  ELSE IF IsAbsolute(p) THEN Walk(Split(p, SLASH), <<>>)
  ELSE Walk(Split(Cwd, SLASH) \o Split(p, SLASH), <<>>)

\* a record of one filesystem call
FsCall(fn, p) == [fn |-> fn, path |-> p]

\* the error a failed filesystem call rejects with
FsError(fn, p, code) == Err("Error", code, p, code)

-----------------------------------------------------------------------------
(* The path guard                                                          *)

\* process.env.ALLOWED_PATHS ? process.env.ALLOWED_PATHS.split(',') : []
AllowedPaths(e) ==
  IF e.defined /\ Len(e.value) > 0 THEN Split(e.value, ",") ELSE <<>>

\* isPathAllowed of file-processor-tool.js and of example-tool.js (the two
\* are the same code)
isPathAllowed(targetPath, e) ==
  LET allowedPaths == AllowedPaths(e)
      resolvedPath == Resolve(targetPath)
  IN  \E i \in 1..Len(allowedPaths) :
        LET resolvedAllowedPath == Resolve(Trim(allowedPaths[i]))
        IN  StartsWith(resolvedPath, resolvedAllowedPath)

-----------------------------------------------------------------------------
(* More of node:path, used for the payloads                                *)

\* normalizeString for a relative path: a leading ".." is kept
NormSegsRel(segs) == [i \in 1..NormRun(segs).up |-> <<".", ".">>] \o NormRun(segs).names

\* path.normalize (no candidate of the model ends in a slash)
Normalize(p) ==
  IF IsAbsolute(p) THEN <<SLASH>> \o Join(NormSegs(Split(p, SLASH)), SLASH)
  ELSE LET r == Join(NormSegsRel(Split(p, SLASH)), SLASH)
       IN  IF Len(r) = 0 THEN DOT ELSE r

\* path.join(dir, name)
PathJoin(dir, name) ==
  IF Len(dir) = 0 THEN Normalize(name) ELSE Normalize(dir \o <<SLASH>> \o name)

\* length of the longest common prefix of two sequences
CommonLen(s, t) ==
  CHOOSE c \in 0..(IF Len(s) < Len(t) THEN Len(s) ELSE Len(t)) :
    /\ \A i \in 1..c : s[i] = t[i]
    /\ c = Len(s) \/ c = Len(t) \/ s[c + 1] # t[c + 1]

\* path.relative(from, to)
Relative(from, to) ==
  LET f == ResolvedSegs(from)
      t == ResolvedSegs(to)
      c == CommonLen(f, t)
  IN  Join([i \in 1..(Len(f) - c) |-> DOTDOT] \o SubSeq(t, c + 1, Len(t)), SLASH)

\* path.basename
BaseName(p) ==
  LET segs == SelectSeq(Split(p, SLASH), LAMBDA x : Len(x) > 0)
  IN  IF Len(segs) = 0 THEN <<>> ELSE segs[Len(segs)]

\* path.extname: from the last dot of the base name, unless that dot is its
\* first character or the base name is ".."
ExtName(p) ==
  LET base == BaseName(p)
      dots == {i \in 2..Len(base) : base[i] = "."}
  IN  IF base = DOTDOT \/ dots = {} THEN <<>>
      ELSE SubSeq(base, CHOOSE i \in dots : \A j \in dots : j <= i, Len(base))

\* path.parse(p).name
ParsedName(p) ==
  LET base == BaseName(p)
  IN  SubSeq(base, 1, Len(base) - Len(ExtName(p)))

\* path.parse(p).dir: the text before the last slash
ParsedDir(p) ==
  LET slashes == {i \in 1..Len(p) : p[i] = SLASH}
  IN  IF slashes = {} THEN <<>>
      ELSE LET k == CHOOSE i \in slashes : \A j \in slashes : j <= i
           IN  IF k = 1 THEN <<SLASH>> ELSE SubSeq(p, 1, k - 1)

-----------------------------------------------------------------------------
(* file_processor                                                          *)

\* z.number().default(1024 * 1024)
DefaultMaxSize == 1048576

\* depth > 10 stops a recursive listing or search
MaxDepth == 10

RECURSIVE Pow1024(_)
Pow1024(k) == IF k = 0 THEN 1 ELSE 1024 * Pow1024(k - 1)

\* the unit the while loop of formatSize stops at, for nUnits units
RECURSIVE UnitIndex(_, _, _)
UnitIndex(bytes, k, nUnits) ==
  IF bytes >= Pow1024(k + 1) /\ k < nUnits - 1 THEN UnitIndex(bytes, k + 1, nUnits) ELSE k

\* `${size.toFixed(2)} ${units[unitIndex]}`, in hundredths rounded to nearest
FormatWith(bytes, units) ==
  LET k == UnitIndex(bytes, 0, Len(units))
      h == (2 * 100 * bytes + Pow1024(k)) \div (2 * Pow1024(k))
  IN  <<ToString(h \div 100), ".", ToString((h % 100) \div 10), ToString(h % 10),
        " ", units[k + 1]>>

\* formatSize of file-processor-tool.js
formatSize(bytes) == FormatWith(bytes, <<"B", "KB", "MB", "GB">>)

\* what an operation hands back: a value or a thrown error, with the guard
\* calls and filesystem calls it made on the way
Return(val, g, f) == [ok |-> TRUE, val |-> val, err |-> NoError, guard |-> g, fs |-> f]
Throw(err, g, f)  == [ok |-> FALSE, val |-> <<>>, err |-> err, guard |-> g, fs |-> f]

\* a record of one call of isPathAllowed and what it returned
GuardCall(p, allowed) == [path |-> p, allowed |-> allowed]

AccessDenied(p) ==
  Err("Error", "Access denied: %s is not in an allowed directory", p, Undefined)

\* the throw of an operation whose path the guard refused
Denied(p) == Throw(AccessDenied(p), <<GuardCall(p, FALSE)>>, <<>>)

\* a read that does not compare the size with maxSize
readFileStatUnlimited(filePath, maxSize, encoding, st) ==
  IF ~st.ok
    THEN Throw(FsError("stat", filePath, st.code),
               <<GuardCall(filePath, TRUE)>>, <<FsCall("stat", filePath)>>)
  ELSE IF FS[st.at].type # "file"
    THEN Throw(Err("Error", "%s is not a file", filePath, Undefined),
               <<GuardCall(filePath, TRUE)>>, <<FsCall("stat", filePath)>>)
  ELSE Return([operation |-> "read", path |-> filePath, size |-> FS[st.at].size,
               size_formatted |-> formatSize(FS[st.at].size),
               encoding |-> encoding,
               content |-> [of |-> st.at, as |-> encoding]],
              <<GuardCall(filePath, TRUE)>>,
              <<FsCall("stat", filePath), FsCall("readFile", filePath)>>)

\* readFile from its fs.stat on; st is what the kernel found at filePath
readFileStat(filePath, maxSize, encoding, st) ==
  IF ~st.ok
    THEN Throw(FsError("stat", filePath, st.code),
               <<GuardCall(filePath, TRUE)>>, <<FsCall("stat", filePath)>>)
  ELSE IF FS[st.at].type # "file"
    THEN Throw(Err("Error", "%s is not a file", filePath, Undefined),
               <<GuardCall(filePath, TRUE)>>, <<FsCall("stat", filePath)>>)
  ELSE IF FS[st.at].size > maxSize
    THEN Throw(Err("Error", "File size (%s) exceeds maximum allowed size (%s)",
                   formatSize(FS[st.at].size) \o formatSize(maxSize), Undefined),
               <<GuardCall(filePath, TRUE)>>, <<FsCall("stat", filePath)>>)
  ELSE Return([operation |-> "read", path |-> filePath, size |-> FS[st.at].size,
               size_formatted |-> formatSize(FS[st.at].size),
               encoding |-> encoding,
               content |-> [of |-> st.at, as |-> encoding]],
              <<GuardCall(filePath, TRUE)>>,
              <<FsCall("stat", filePath), FsCall("readFile", filePath)>>)

\* readFile
readFile(filePath, maxSize, encoding, e) ==
  IF ~isPathAllowed(filePath, e) THEN Denied(filePath)
  ELSE readFileStat(filePath, maxSize, encoding, Lookup(filePath))

\* getStats from its fs.stat on
getStatsStat(targetPath, st) ==
  IF st.ok
    THEN Return([operation |-> "stats", path |-> targetPath, exists |-> TRUE,
                 name |-> ParsedName(targetPath),
                 extension |-> ExtName(targetPath),
                 directory |-> ParsedDir(targetPath),
                 type |-> IF FS[st.at].type = "directory" THEN "directory" ELSE "file",
                 size |-> FS[st.at].size,
                 size_formatted |-> formatSize(FS[st.at].size),
                 is_directory |-> FS[st.at].type = "directory",
                 is_file |-> FS[st.at].type = "file"],
                <<GuardCall(targetPath, TRUE)>>, <<FsCall("stat", targetPath)>>)
  ELSE IF st.code = "ENOENT"
    THEN Return([operation |-> "stats", path |-> targetPath, exists |-> FALSE,
                 error |-> "File or directory not found"],
                <<GuardCall(targetPath, TRUE)>>, <<FsCall("stat", targetPath)>>)
  ELSE Throw(FsError("stat", targetPath, st.code),
             <<GuardCall(targetPath, TRUE)>>, <<FsCall("stat", targetPath)>>)

\* getStats
getStats(targetPath, e) ==
  IF ~isPathAllowed(targetPath, e) THEN Denied(targetPath)
  ELSE getStatsStat(targetPath, Lookup(targetPath))

\* fs.readdir at the place the kernel found: the names of the children, or
\* the code it rejects with
ReaddirAt(st) ==
  IF ~st.ok THEN [ok |-> FALSE, code |-> st.code, at |-> st.at, names |-> <<>>]
  ELSE IF FS[st.at].type # "directory"
    THEN [ok |-> FALSE, code |-> "ENOTDIR", at |-> st.at, names |-> <<>>]
  ELSE IF ~FS[st.at].readable
    THEN [ok |-> FALSE, code |-> "EACCES", at |-> st.at, names |-> <<>>]
  ELSE [ok |-> TRUE, code |-> Undefined, at |-> st.at, names |-> FS[st.at].children]

\* fs.readdir(p, { withFileTypes: true })
Readdir(p) == ReaddirAt(Lookup(p))

\* the position of a name among the names fs.readdir returns
IndexIn(names, x) == CHOOSE i \in 1..Len(names) : names[i] = x

\* the loops of listRecursive and searchRecursive take the entries of a
\* directory in the order of fs.readdir and go into a directory right after
\* its entry: the place p is met before the place q when p lies above q, or
\* where their ways part p takes the earlier entry
MetBefore(p, q) ==
  LET c == CommonLen(p, q)
  IN  IF c = Len(p) THEN c < Len(q)
      ELSE /\ c < Len(q)
           /\ IndexIn(FS[SubSeq(p, 1, c)].children, p[c + 1])
                < IndexIn(FS[SubSeq(p, 1, c)].children, q[c + 1])

\* the places of the tree in the order such a loop meets them from the root
Places ==
  SelectSeq([i \in 1..Cardinality(DOMAIN FS) |->
               CHOOSE p \in DOMAIN FS :
                 Cardinality({q \in DOMAIN FS : MetBefore(q, p)}) = i - 1],
            LAMBDA p : TRUE)

\* the places below the place at, and the depth listRecursive and
\* searchRecursive have when they meet the entry of such a place (0 for the
\* entries of the directory the walk starts in)
Below(at) == {p \in DOMAIN FS : Len(p) > Len(at) /\ SubSeq(p, 1, Len(at)) = at}
DepthBelow(at, p) == Len(p) - Len(at) - 1

\* the places a walk from the place at has entries for if it runs to its
\* end, in its order: those below at such that the loop goes into every
\* directory on the way down to them (into holds the places it goes into)
Met(at, into) ==
  SelectSeq(Places,
            LAMBDA p : /\ p \in Below(at)
                       /\ \A k \in (Len(at) + 1)..(Len(p) - 1) : SubSeq(p, 1, k) \in into)

\* fullPath of the entry of the place p in a walk started with the path
\* dirPath at the place at: path.join of currentPath and entry.name, from
\* dirPath down
FullPath(dirPath, at, p) ==
  PathJoin(dirPath, Join(SubSeq(p, Len(at) + 1, Len(p)), SLASH))

\* the test that opens listRecursive
DepthNeverExceeded(depth) == FALSE

DepthExceeded(depth) == depth > MaxDepth

\* the loop of listRecursive pushes a result for a directory and for a
\* regular file
Listed(node) == node.type = "directory" \/ node.type = "file"

\* the body of the loop of listRecursive up to its recursive call: the
\* result pushed for the entry of a name at fullPath
ListEntry(dirPath, name, node, fullPath, depth) ==
  IF node.type = "directory"
    THEN [name |-> name, path |-> Relative(dirPath, fullPath),
          type |-> "directory", depth |-> depth]
  ELSE IF Lookup(fullPath).ok
    THEN [name |-> name, path |-> Relative(dirPath, fullPath),
          type |-> "file", size |-> node.size,
          size_formatted |-> formatSize(node.size),
          extension |-> ExtName(name), depth |-> depth]
  ELSE [name |-> name, path |-> Relative(dirPath, fullPath),
        type |-> "file", error |-> "Unable to read file stats",
        depth |-> depth]

\* the filesystem calls made for the entry of the place p by a walk from the
\* place at: fs.stat of a file, and the fs.readdir of the call of
\* listRecursive for a directory, unless that call throws before it
ListCalls(dirPath, at, p, recursive) ==
  IF FS[p].type = "file" THEN <<FsCall("stat", FullPath(dirPath, at, p))>>
  ELSE IF FS[p].type = "directory" /\ recursive /\ ~DepthExceeded(DepthBelow(at, p) + 1)
    THEN <<FsCall("readdir", FullPath(dirPath, at, p))>>
  ELSE <<>>

\* listRecursive(dirPath) and the calls of listRecursive under it: the
\* results pushed and the filesystem calls made, up to the end of the walk
\* or to the first entry of a directory whose call of listRecursive throws,
\* because of its depth or because its fs.readdir rejects
listRecursive(dirPath, recursive) ==
  LET rd == Readdir(dirPath)
      met == Met(rd.at, IF recursive THEN DOMAIN FS ELSE {})
      stops == {i \in 1..Len(met) :
                  /\ recursive
                  /\ FS[met[i]].type = "directory"
                  /\ \/ DepthExceeded(DepthBelow(rd.at, met[i]) + 1)
                     \/ ~FS[met[i]].readable}
      last == IF stops = {} THEN Len(met)
              ELSE CHOOSE i \in stops : \A j \in stops : i <= j
      done == SubSeq(met, 1, last)
      listed == SelectSeq(done, LAMBDA p : Listed(FS[p]))
      calls == SelectSeq(done, LAMBDA p : ListCalls(dirPath, rd.at, p, recursive) # <<>>)
  IN  IF ~rd.ok
        THEN [ok |-> FALSE, entries |-> <<>>, fs |-> <<FsCall("readdir", dirPath)>>,
              err |-> FsError("readdir", dirPath, rd.code)]
      ELSE [ok |-> stops = {},
            entries |->
              <<>> \o [i \in 1..Len(listed) |->
                         ListEntry(dirPath, listed[i][Len(listed[i])], FS[listed[i]],
                                   FullPath(dirPath, rd.at, listed[i]),
                                   DepthBelow(rd.at, listed[i]))],
            fs |-> <<FsCall("readdir", dirPath)>>
                     \o [i \in 1..Len(calls) |->
                           ListCalls(dirPath, rd.at, calls[i], recursive)[1]],
            err |-> IF stops = {} THEN NoError
                    ELSE IF DepthExceeded(DepthBelow(rd.at, met[last]) + 1)
                      THEN Err("Error", "Maximum directory depth exceeded", <<>>,
                               Undefined)
                    ELSE FsError("readdir", FullPath(dirPath, rd.at, met[last]),
                                 "EACCES")]

RECURSIVE TotalSize(_)
\* a sum that stops after the first entry
TotalSizeOfFirst(entries) ==
  IF Len(entries) > 0 /\ entries[1].type = "file" /\ "size" \in DOMAIN entries[1]
    THEN entries[1].size ELSE 0

\* sum of the sizes of the file entries that have a (truthy) size (that of
\* the two halves of the entries)
TotalSize(entries) ==
  IF Len(entries) = 0 THEN 0
  ELSE IF Len(entries) = 1
    THEN IF entries[1].type = "file" /\ "size" \in DOMAIN entries[1]
           THEN entries[1].size ELSE 0
  ELSE TotalSize(SubSeq(entries, 1, Len(entries) \div 2))
         + TotalSize(SubSeq(entries, Len(entries) \div 2 + 1, Len(entries)))

\* listDirectory from its fs.stat on; r is what listRecursive(dirPath) gives
listDirectoryStat(dirPath, recursive, st, r) ==
  IF ~st.ok
    THEN Throw(FsError("stat", dirPath, st.code),
               <<GuardCall(dirPath, TRUE)>>, <<FsCall("stat", dirPath)>>)
  ELSE IF FS[st.at].type # "directory"
    THEN Throw(Err("Error", "%s is not a directory", dirPath, Undefined),
               <<GuardCall(dirPath, TRUE)>>, <<FsCall("stat", dirPath)>>)
  ELSE IF ~r.ok
    THEN Throw(r.err, <<GuardCall(dirPath, TRUE)>>, <<FsCall("stat", dirPath)>> \o r.fs)
  ELSE Return([operation |-> "list", path |-> dirPath, recursive |-> recursive,
               entries |-> r.entries,
               summary |->
                 [total |-> Len(r.entries),
                  files |-> Len(SelectSeq(r.entries, LAMBDA x : x.type = "file")),
                  directories |->
                    Len(SelectSeq(r.entries, LAMBDA x : x.type = "directory")),
                  total_size |-> TotalSize(r.entries),
                  total_size_formatted |-> formatSize(TotalSize(r.entries))]],
              <<GuardCall(dirPath, TRUE)>>, <<FsCall("stat", dirPath)>> \o r.fs)

\* listDirectory
listDirectory(dirPath, recursive, e) ==
  IF ~isPathAllowed(dirPath, e) THEN Denied(dirPath)
  ELSE listDirectoryStat(dirPath, recursive, Lookup(dirPath),
                         listRecursive(dirPath, recursive))

\* new RegExp(pattern, 'i') throws a SyntaxError on an unclosed group; the
\* patterns of the model hold letters, dots and the opening parenthesis
RegexValid(pattern) == \A i \in 1..Len(pattern) : pattern[i] # "("

\* regex.test(name): the pattern matches somewhere in the name, a dot
\* standing for any character
RegexTest(pattern, name) ==
  \E k \in 0..(Len(name) - Len(pattern)) :
    \A i \in 1..Len(pattern) : pattern[i] = "." \/ pattern[i] = name[k + i]

\* the value searchFiles returns once searchRecursive has filled matches
SearchResult(searchPath, pattern, recursive, r) ==
  Return([operation |-> "search", path |-> searchPath, pattern |-> pattern,
          recursive |-> recursive, matches |-> r.matches, count |-> Len(r.matches)],
         <<GuardCall(searchPath, TRUE)>>, r.fs)

\* the if (regex.test(entry.name)) statement of searchRecursive: the match
\* pushed for the entry of a name at fullPath, after an fs.stat of it
SearchMatch(searchPath, name, node, fullPath, depth) ==
  IF Lookup(fullPath).ok
    THEN [name |-> name, path |-> Relative(searchPath, fullPath),
          full_path |-> fullPath,
          type |-> IF node.type = "directory" THEN "directory" ELSE "file",
          size |-> IF node.type = "file" THEN <<node.size>> ELSE <<>>,
          size_formatted |->
            IF node.type = "file" THEN formatSize(node.size) ELSE <<>>,
          depth |-> depth]
  ELSE [name |-> name, path |-> Relative(searchPath, fullPath),
        full_path |-> fullPath,
        type |-> IF node.type = "directory" THEN "directory" ELSE "file",
        error |-> "Unable to read stats", depth |-> depth]

\* the test that opens searchRecursive: the call returns at once
SearchReturns(depth) == depth > MaxDepth

\* a loop that goes into every directory, asked to or not
SearchDescendsAlways(node, depth, recursive) ==
  node.type = "directory" /\ depth < MaxDepth

\* the test under which the loop of searchRecursive calls searchRecursive
\* for an entry
SearchDescends(node, depth, recursive) ==
  node.type = "directory" /\ recursive /\ depth < MaxDepth

\* searchRecursive(searchPath) and the calls of searchRecursive under it:
\* the matches pushed and the filesystem calls made. For every entry met,
\* first the fs.stat and the match if the name passes the test, then the
\* fs.readdir of the call for a directory the loop goes into, unless that
\* call returns at once; a directory whose fs.readdir rejects has no entries
searchRecursive(searchPath, pattern, recursive) ==
  LET rd == Readdir(searchPath)
      reads(q) == /\ SearchDescends(FS[q], DepthBelow(rd.at, q), recursive)
                  /\ ~SearchReturns(DepthBelow(rd.at, q) + 1)
      met == IF rd.ok THEN Met(rd.at, {q \in Below(rd.at) : reads(q)}) ELSE <<>>
      matched == SelectSeq(met, LAMBDA p : RegexTest(pattern, p[Len(p)]))
      steps == [j \in 1..(2 * Len(met)) |->
                  [p |-> met[(j + 1) \div 2],
                   fn |-> IF j % 2 = 1 THEN "stat" ELSE "readdir"]]
      made == SelectSeq(steps,
                LAMBDA c : IF c.fn = "stat" THEN RegexTest(pattern, c.p[Len(c.p)])
                           ELSE reads(c.p))
  IN  [matches |->
         <<>> \o [i \in 1..Len(matched) |->
                    SearchMatch(searchPath, matched[i][Len(matched[i])], FS[matched[i]],
                                FullPath(searchPath, rd.at, matched[i]),
                                DepthBelow(rd.at, matched[i]))],
       fs |-> IF SearchReturns(0) THEN <<>>
              ELSE <<FsCall("readdir", searchPath)>>
                     \o [i \in 1..Len(made) |->
                           FsCall(made[i].fn, FullPath(searchPath, rd.at, made[i].p))]]

\* searchFiles
searchFiles(searchPath, pattern, recursive, e) ==
  IF ~isPathAllowed(searchPath, e) THEN Denied(searchPath)
  ELSE IF ~RegexValid(pattern)
    THEN Throw(Err("SyntaxError", "Invalid regular expression: /%s/", pattern, Undefined),
               <<GuardCall(searchPath, TRUE)>>, <<>>)
  ELSE SearchResult(searchPath, pattern, recursive,
                    searchRecursive(searchPath, pattern, recursive))

-----------------------------------------------------------------------------
(* Arguments and zod                                                       *)

\* an argument mapping is a function from the names of the fields that are
\* present to their values
NoArgs == <<>>
Has(args, f) == f \in DOMAIN args

\* the value of a field with a .default(d)
OrDefault(args, f, d) == IF Has(args, f) THEN args[f] ELSE d

\* ZodError: its message lists the paths of the issues, in schema order
ZodError(fields) == Err("ZodError", "ZodError: invalid input at %s", fields, Undefined)

\* the issue of a z.enum field, if any: missing, or not one of the values
EnumIssue(args, f, values) ==
  IF ~Has(args, f) \/ args[f] \notin values THEN <<f>> ELSE <<>>

\* the issue of an optional z.enum field with a default
OptEnumIssue(args, f, values) ==
  IF Has(args, f) /\ args[f] \notin values THEN <<f>> ELSE <<>>

\* the issue of a required field of another type (the model sends no value
\* of a wrong type)
RequiredIssue(args, f) == IF ~Has(args, f) THEN <<f>> ELSE <<>>

\* what an execute hands back: a thrown error (the promise rejects) or an
\* envelope, whether the code after inputSchema.parse ran, and the guard and
\* filesystem calls made
Rejects(err) ==
  [threw |-> TRUE, err |-> err, envelope |-> <<>>, body |-> FALSE,
   guard |-> <<>>, fs |-> <<>>, cause |-> err]
Resolves(result, r) ==
  [threw |-> FALSE, err |-> NoError, envelope |-> result, body |-> TRUE,
   guard |-> r.guard, fs |-> r.fs, cause |-> r.err]

\* new Date().toISOString()
Now == "timestamp"

FileOperations == {"read", "list", "search", "stats"}
Encodings == {"utf8", "binary", "base64"}

\* inputSchema.parse of file-processor-tool.js
FileProcessorIssues(args) ==
  EnumIssue(args, "operation", FileOperations)
    \o RequiredIssue(args, "path")
    \o OptEnumIssue(args, "encoding", Encodings)

\* a schema whose recursive field defaults to true
FileProcessorParsedRecursive(args) ==
  [operation |-> args["operation"],
   path      |-> args["path"],
   pattern   |-> IF Has(args, "pattern") THEN <<args["pattern"]>> ELSE <<>>,
   recursive |-> OrDefault(args, "recursive", TRUE),
   max_size  |-> OrDefault(args, "max_size", DefaultMaxSize),
   encoding  |-> OrDefault(args, "encoding", "utf8")]

\* the validated arguments: each field given, or its .default()
FileProcessorParsed(args) ==
  [operation |-> args["operation"],
   path      |-> args["path"],
   pattern   |-> IF Has(args, "pattern") THEN <<args["pattern"]>> ELSE <<>>,
   recursive |-> OrDefault(args, "recursive", FALSE),
   max_size  |-> OrDefault(args, "max_size", DefaultMaxSize),
   encoding  |-> OrDefault(args, "encoding", "utf8")]

\* a switch whose search case hands the pattern on without testing it
FileProcessorOperationUntested(v, e) ==
  CASE v.operation = "read"  -> readFile(v.path, v.max_size, v.encoding, e)
    [] v.operation = "list"  -> listDirectory(v.path, v.recursive, e)
    [] v.operation = "search" ->
         searchFiles(v.path, IF v.pattern = <<>> THEN <<>> ELSE v.pattern[1],
                     v.recursive, e)
    [] v.operation = "stats" -> getStats(v.path, e)

\* the switch of execute: the operation on the validated arguments v
FileProcessorOperation(v, e) ==
  CASE v.operation = "read"  -> readFile(v.path, v.max_size, v.encoding, e)
    [] v.operation = "list"  -> listDirectory(v.path, v.recursive, e)
    [] v.operation = "search" ->
         IF v.pattern = <<>> \/ v.pattern = << <<>> >>
           THEN Throw(Err("Error", "pattern is required for search operation",
                          <<>>, Undefined), <<>>, <<>>)
           ELSE searchFiles(v.path, v.pattern[1], v.recursive, e)
    [] v.operation = "stats" -> getStats(v.path, e)

\* the two return statements of execute: r is what the operation gave
FileProcessorEnvelope(v, r) ==
  IF r.ok
    THEN Resolves(r.val @@ [success |-> TRUE, timestamp |-> Now], r)
    ELSE Resolves([success |-> FALSE, operation |-> v.operation, path |-> v.path,
                   error |-> [message |-> r.err.message, code |-> r.err.code],
                   timestamp |-> Now], r)

\* execute of file-processor-tool.js
FileProcessorExecute(args, e) ==
  IF FileProcessorIssues(args) # <<>> THEN Rejects(ZodError(FileProcessorIssues(args)))
  ELSE FileProcessorEnvelope(FileProcessorParsed(args),
                             FileProcessorOperation(FileProcessorParsed(args), e))

-----------------------------------------------------------------------------
(* example_tool                                                            *)

Actions == {"greet", "echo", "file_info", "system_info"}

\* formatFileSize of example-tool.js
formatFileSize(bytes) == FormatWith(bytes, <<"B", "KB", "MB", "GB", "TB">>)

\* inputSchema.parse of example-tool.js
ExampleIssues(args) == EnumIssue(args, "action", Actions)

ExampleParsed(args) ==
  [action          |-> args["action"],
   message         |-> IF Has(args, "message") THEN <<args["message"]>> ELSE <<>>,
   file_path       |-> IF Has(args, "file_path") THEN <<args["file_path"]>> ELSE <<>>,
   include_details |-> OrDefault(args, "include_details", FALSE)]

\* x || d for an optional text: the default when x is undefined or empty
OrText(opt, d) == IF opt = <<>> \/ opt = << <<>> >> THEN d ELSE opt[1]

WORLD == <<"W", "o", "r", "l", "d">>

\* handleGreet
handleGreet(message, includeDetails) ==
  LET greeting == <<"Hello, ">> \o message \o <<"!">>
  IN  IF includeDetails
        THEN [greeting |-> greeting, details |-> [message_length |-> Len(message)]]
        ELSE [greeting |-> greeting]

\* handleEcho
handleEcho(message, includeDetails) ==
  IF includeDetails
    THEN [echo |-> message, details |-> [character_count |-> Len(message)]]
    ELSE [echo |-> message]

\* handleFileInfo from its fs.stat on
handleFileInfoStat(filePath, includeDetails, st) ==
  IF st.ok
    THEN Return([exists |-> TRUE, name |-> ParsedName(filePath),
                 extension |-> ExtName(filePath),
                 size |-> formatFileSize(FS[st.at].size),
                 size_bytes |-> FS[st.at].size,
                 is_directory |-> FS[st.at].type = "directory",
                 is_file |-> FS[st.at].type = "file"]
                  @@ (IF includeDetails
                        THEN [details |-> [full_path |-> Resolve(filePath),
                                           directory |-> ParsedDir(filePath)]]
                        ELSE <<>>),
                <<GuardCall(filePath, TRUE)>>, <<FsCall("stat", filePath)>>)
  ELSE IF st.code = "ENOENT"
    THEN Return([exists |-> FALSE, path |-> filePath,
                 error |-> "File or directory not found"],
                <<GuardCall(filePath, TRUE)>>, <<FsCall("stat", filePath)>>)
  ELSE Throw(FsError("stat", filePath, st.code),
             <<GuardCall(filePath, TRUE)>>, <<FsCall("stat", filePath)>>)

\* handleFileInfo
handleFileInfo(filePath, includeDetails, e) ==
  IF ~isPathAllowed(filePath, e) THEN Denied(filePath)
  ELSE handleFileInfoStat(filePath, includeDetails, Lookup(filePath))

\* handleSystemInfo
handleSystemInfo(includeDetails) ==
  IF includeDetails
    THEN [platform |-> "platform", details |-> [current_working_directory |-> Cwd]]
    ELSE [platform |-> "platform"]

\* the switch of execute: the action on the validated arguments v
ExampleAction(v, e) ==
  CASE v.action = "greet" ->
         Return(handleGreet(OrText(v.message, WORLD), v.include_details), <<>>, <<>>)
    [] v.action = "echo" ->
         Return(handleEcho(OrText(v.message, <<>>), v.include_details), <<>>, <<>>)
    [] v.action = "file_info" ->
         IF v.file_path = <<>> \/ v.file_path = << <<>> >>
           THEN Throw(Err("Error", "file_path is required for file_info action",
                          <<>>, Undefined), <<>>, <<>>)
           ELSE handleFileInfo(v.file_path[1], v.include_details, e)
    [] v.action = "system_info" ->
         Return(handleSystemInfo(v.include_details), <<>>, <<>>)

\* the two return statements of execute: r is what the action gave
ExampleEnvelope(v, r) ==
  IF r.ok
    THEN Resolves([success |-> TRUE, action |-> v.action, result |-> r.val,
                   metadata |->
                     [execution_time_ms |-> "elapsed", timestamp |-> Now]
                       @@ (IF v.include_details THEN [input_args |-> v] ELSE <<>>)], r)
    ELSE Resolves([success |-> FALSE, action |-> v.action,
                   error |-> [message |-> r.err.message, type |-> r.err.ctor],
                   metadata |-> [execution_time_ms |-> "elapsed", timestamp |-> Now]], r)

\* execute of example-tool.js
ExampleExecute(args, e) ==
  IF ExampleIssues(args) # <<>> THEN Rejects(ZodError(ExampleIssues(args)))
  ELSE ExampleEnvelope(ExampleParsed(args), ExampleAction(ExampleParsed(args), e))

-----------------------------------------------------------------------------
(* system_info                                                             *)

Categories == {"overview", "hardware", "process", "environment", "network"}

\* the safe names getEnvironmentInfo reports
SafeEnvNames == {"NODE_ENV", "PATH", "HOME", "USER", "SHELL", "LANG", "TZ"}

\* the names of the model's variables that start with EXTENSION_, ALLOWED_,
\* API_ or ENABLE_
ExtensionNames == {"API_KEY", "ALLOWED_PATHS"}

\* process.env as getEnvironmentInfo reads it: every variable of e with its
\* text, ALLOWED_PATHS among them
EnvVars(e) ==
  IF e.defined THEN e.others @@ ("ALLOWED_PATHS" :> e.value) ELSE e.others

\* envVars.NAME: the text in a one-element list, or <<>> for undefined
EnvGet(envVars, k) == IF k \in DOMAIN envVars THEN <<envVars[k]>> ELSE <<>>

\* a || b on two such values: a unless it is undefined or empty
OrElse(a, b) == IF a # <<>> /\ a[1] # <<>> THEN a ELSE b

\* `${envVars.PATH?.substring(0, 100)}...`
PathPreview(path) ==
  (IF path = <<>> THEN <<"u", "n", "d", "e", "f", "i", "n", "e", "d">>
   ELSE SubSeq(path[1], 1, IF Len(path[1]) < 100 THEN Len(path[1]) ELSE 100))
    \o <<".", ".", ".">>

\* the safeEnvVars object of getEnvironmentInfo
SafeEnvVars(detailed, envVars) ==
  [k \in SafeEnvNames |->
     CASE k = "PATH" -> IF detailed THEN EnvGet(envVars, "PATH")
                        ELSE <<PathPreview(EnvGet(envVars, "PATH"))>>
       [] k = "USER" -> OrElse(EnvGet(envVars, "USER"), EnvGet(envVars, "USERNAME"))
       [] OTHER      -> EnvGet(envVars, k)]

\* Object.fromEntries(Object.entries(o).filter(([, value]) => value !== undefined))
Defined(o) == [k \in {n \in DOMAIN o : o[n] # <<>>} |-> o[k][1]]

\* an environment report that copies every variable
getEnvironmentInfoUnfiltered(detailed, e) ==
  [variable_count |-> Cardinality(DOMAIN EnvVars(e)), variables |-> EnvVars(e)]

\* getEnvironmentInfo
getEnvironmentInfo(detailed, e) ==
  LET envVars == EnvVars(e)
      environment ==
        [variable_count |-> Cardinality(DOMAIN envVars),
         variables |-> Defined(SafeEnvVars(detailed, envVars))]
  IN  IF detailed
        THEN environment @@
               [detailed |->
                  [extension_variables |->
                     [k \in ExtensionNames \cap DOMAIN envVars |-> envVars[k]],
                   node_options |-> EnvGet(envVars, "NODE_OPTIONS"),
                   npm_config_prefix |-> EnvGet(envVars, "npm_config_prefix"),
                   npm_config_cache |-> EnvGet(envVars, "npm_config_cache")]]
        ELSE environment

\* inputSchema.parse of system-info-tool.js
SystemInfoIssues(args) == OptEnumIssue(args, "category", Categories)

\* execute of system-info-tool.js; the categories other than environment
\* report values of the os module only
SystemInfoExecute(args, e) ==
  IF SystemInfoIssues(args) # <<>> THEN Rejects(ZodError(SystemInfoIssues(args)))
  ELSE
    LET category == OrDefault(args, "category", "overview")
        detailed == OrDefault(args, "detailed", FALSE)
        data == IF category = "environment" THEN getEnvironmentInfo(detailed, e)
                ELSE IF detailed THEN [of |-> category, detailed |-> [of |-> category]]
                ELSE [of |-> category]
    IN  Resolves([success |-> TRUE, category |-> category, detailed |-> detailed,
                  data |-> data, timestamp |-> Now, collected_in_ms |-> 0],
                 Return(data, <<>>, <<>>))

-----------------------------------------------------------------------------
(* The registry (ExtensionServer.tools, a Map keyed by name)               *)

\* values of a descriptor's fields carry their JavaScript type
Str(v) == [t |-> "string", v |-> v]
Obj(v) == [t |-> "object", v |-> v]
Fn(v)  == [t |-> "function", v |-> v]

exampleTool ==
  [name |-> Str("example_tool"), description |-> Str("example_tool description"),
   inputSchema |-> Obj("example_tool schema"), execute |-> Fn("example_tool")]
fileProcessorTool ==
  [name |-> Str("file_processor"), description |-> Str("file_processor description"),
   inputSchema |-> Obj("file_processor schema"), execute |-> Fn("file_processor")]
systemInfoTool ==
  [name |-> Str("system_info"), description |-> Str("system_info description"),
   inputSchema |-> Obj("system_info schema"), execute |-> Fn("system_info")]

\* registerTools of tools/index.js
registerTools == <<exampleTool, fileProcessorTool, systemInfoTool>>

\* the forEach of registerTools: the first tool of the array whose name,
\* description or execute is missing or falsy (0 if there is none)
MissingProperties(list) ==
  LET bad == {i \in 1..Len(list) :
                \E f \in {"name", "description", "execute"} :
                  f \notin DOMAIN list[i] \/ list[i][f].v = ""}
  IN  IF bad = {} THEN 0 ELSE CHOOSE i \in bad : \A j \in bad : i <= j

\* toolSchema of registerTool: the type each field must have
ToolSchema ==
  [name |-> "string", description |-> "string", inputSchema |-> "object",
   execute |-> "function"]

\* the fields toolSchema.parse rejects
ToolIssues(tool) ==
  {f \in DOMAIN ToolSchema : ~Has(tool, f) \/ tool[f].t # ToolSchema[f]}

\* position of the entry of a name in the Map, 0 if it has none
IndexOf(registry, name) ==
  IF \E i \in 1..Len(registry) : registry[i].name.v = name
    THEN CHOOSE i \in 1..Len(registry) : registry[i].name.v = name
    ELSE 0

\* Map.prototype.has
MapHas(registry, name) == IndexOf(registry, name) # 0

\* a set that always adds an entry, also for a key the Map has
MapSetAppend(registry, tool) == Append(registry, tool)

\* Map.prototype.set: a new key goes last, an old key keeps its place
MapSet(registry, tool) ==
  IF MapHas(registry, tool.name.v)
    THEN [registry EXCEPT ![IndexOf(registry, tool.name.v)] = tool]
    ELSE Append(registry, tool)

\* the error registerTool throws: it quotes tool.name and the message of the
\* ZodError, which lists the fields refused
InvalidToolConfiguration(tool) ==
  Err("Error", "Invalid tool configuration for \"%s\": %s",
      <<IF Has(tool, "name") THEN tool["name"].v ELSE Undefined, ToolIssues(tool)>>,
      Undefined)

\* a registerTool that stores what it is given and reports the issues after
registerToolUnchecked(registry, tool) ==
  [ok |-> ToolIssues(tool) = {},
   tools |-> IF Has(tool, "name") THEN MapSet(registry, tool) ELSE registry,
   err |-> IF ToolIssues(tool) = {} THEN NoError ELSE InvalidToolConfiguration(tool)]

\* registerTool: the Map after the call, and the error it throws (if any)
registerTool(registry, tool) ==
  IF ToolIssues(tool) = {}
    THEN [ok |-> TRUE, tools |-> MapSet(registry, [f \in DOMAIN ToolSchema |-> tool[f]]),
          err |-> NoError]
    ELSE [ok |-> FALSE, tools |-> registry, err |-> InvalidToolConfiguration(tool)]

\* a registerAllTools that passes over the tools registerTool refuses
RECURSIVE registerAllToolsSkipping(_, _)
registerAllToolsSkipping(registry, list) ==
  IF Len(list) = 0 THEN [ok |-> TRUE, tools |-> registry, err |-> NoError]
  ELSE registerAllToolsSkipping(registerTool(registry, Head(list)).tools, Tail(list))

\* a registerAllTools that registers the first tool of the list only
registerAllToolsFirst(registry, list) ==
  IF Len(list) = 0 THEN [ok |-> TRUE, tools |-> registry, err |-> NoError]
  ELSE registerTool(registry, Head(list))

\* registerAllTools: registerTool for each tool of the list, stopping at the
\* first that throws
RECURSIVE registerAllTools(_, _)
registerAllTools(registry, list) ==
  IF Len(list) = 0 THEN [ok |-> TRUE, tools |-> registry, err |-> NoError]
  ELSE LET r == registerTool(registry, Head(list))
       IN  IF r.ok THEN registerAllTools(r.tools, Tail(list)) ELSE r

\* new ExtensionServer(): registerAllTools on what registerTools() returns,
\* or the error registerTools() or registerTool throws
Constructed(list) ==
  IF MissingProperties(list) # 0
    THEN [ok |-> FALSE, tools |-> <<>>,
          err |-> Err("Error",
                      "Tool at index %s is missing required properties (name, description, execute)",
                      <<MissingProperties(list) - 1>>, Undefined)]
    ELSE registerAllTools(<<>>, list)

-----------------------------------------------------------------------------
(* The dispatcher (setupHandlers)                                          *)

\* the execute function a descriptor holds
Execute(fn, args, e) ==
  CASE fn = "example_tool"   -> ExampleExecute(args, e)
    [] fn = "file_processor" -> FileProcessorExecute(args, e)
    [] fn = "system_info"    -> SystemInfoExecute(args, e)
    [] fn = "test_tool"      -> Resolves([success |-> TRUE], Return(<<>>, <<>>, <<>>))

McpError(code, text, cause) ==
  [kind |-> "McpError", code |-> code, message |-> [text |-> text, cause |-> cause]]

\* JSON.stringify(result, null, 2): a property whose value is undefined is
\* left out (the code property of a failure envelope's error)
Stringify(result) ==
  IF ~result.success /\ "code" \in DOMAIN result.error /\ result.error.code = Undefined
    THEN [result EXCEPT !.error = [message |-> result.error.message]]
    ELSE result

\* what a handler does: the outcomes it hands to the host, in order, and
\* whether it ends the process
Handled(outcomes) == [outcomes |-> outcomes, exit |-> FALSE]

\* the return statement of the CallTool handler
ToolResult(result) ==
  Handled(<<[kind |-> "result",
             content |-> <<[type |-> "text", text |-> Stringify(result)]>>]>>)

\* a catch block that throws the tool's error on as it is
CatchToolErrorRethrow(error) == Handled(<<[kind |-> "raw", error |-> error]>>)

\* a catch block that ends the process, as the one of start() does
CatchToolErrorExit(error) == [outcomes |-> <<>>, exit |-> TRUE]

\* the catch block of the CallTool handler
CatchToolError(error) ==
  Handled(<<McpError("InternalError", "Tool execution failed: ", error.message)>>)

\* a handler that looks into the envelope and raises a failure as an error
RunToolInspecting(x) ==
  IF x.threw THEN CatchToolError(x.err)
  ELSE IF ~x.envelope.success THEN CatchToolError(x.envelope.error)
  ELSE ToolResult(x.envelope)

\* the try statement of the CallTool handler, for a tool that is registered
RunTool(x) ==
  IF x.threw THEN CatchToolError(x.err) ELSE ToolResult(x.envelope)

\* a lookup failure reported as an internal error
ToolNotFoundInternal(name) ==
  Handled(<<McpError("InternalError", "Tool \"%s\" not found", Msg(name, <<>>))>>)

\* the throw of the CallTool handler for a name that is not registered
ToolNotFound(name) ==
  Handled(<<McpError("MethodNotFound", "Tool \"%s\" not found", Msg(name, <<>>))>>)

\* a list that hands out the whole descriptor
ListResultWithExecute(registry) ==
  [kind |-> "result",
   tools |-> [i \in 1..Len(registry) |-> [f \in DOMAIN registry[i] |-> registry[i][f].v]]]

\* the ListTools handler
ListResult(registry) ==
  [kind |-> "result",
   tools |-> [i \in 1..Len(registry) |->
                [name |-> registry[i].name.v,
                 description |-> registry[i].description.v,
                 inputSchema |-> registry[i].inputSchema.v]]]

-----------------------------------------------------------------------------
(* The requests of the host                                                *)

\* the field f absent, or present with a value of S
Opt(f, S) == {NoArgs} \cup {f :> v : v \in S}

Merge(X, Y) == {a @@ b : a \in X, b \in Y}

\* search patterns: a letter, an unclosed group
Patterns == {A, <<"(">>}

\* message texts
HI == <<"h", "i">>

FileProcessorArgs ==
  Merge(Opt("operation", FileOperations \cup {"delete"}), Opt("path", CandidatePaths))
    \cup { ("operation" :> "search") @@ ("path" :> p) @@ ("pattern" :> pt) @@ r :
             p \in CandidatePaths, pt \in Patterns, r \in Opt("recursive", {TRUE}) }
    \cup { ("operation" :> "search") @@ ("path" :> p) @@ ("pattern" :> <<>>) :
             p \in {P(<<A>>), P(<<B>>)} }
    \cup { ("operation" :> "list") @@ ("path" :> p) @@ ("recursive" :> TRUE) :
             p \in CandidatePaths }
    \cup { ("operation" :> "read") @@ ("path" :> p) @@ ("max_size" :> 1) @@ c :
             p \in CandidatePaths, c \in Opt("encoding", {"base64", "latin1"}) }

ExampleArgs ==
  Merge(Merge(Opt("action", Actions \cup {"invalid_action"}), Opt("message", {<<>>, HI})),
        Opt("include_details", {TRUE}))
    \cup { ("action" :> "file_info") @@ ("file_path" :> p) @@ d :
             p \in CandidatePaths, d \in Opt("include_details", {TRUE}) }

SystemInfoArgs ==
  Merge(Opt("category", Categories \cup {"invalid"}), Opt("detailed", {TRUE, FALSE}))

\* names no tool is registered under
UnknownNames == {"test_tool", "no_such_tool"}

\* the tools/call requests: tool name, whether params.arguments is present,
\* and the arguments
CallRequests ==
  {<<"file_processor", TRUE, a>> : a \in FileProcessorArgs}
    \cup {<<"example_tool", TRUE, a>> : a \in ExampleArgs}
    \cup {<<"system_info", TRUE, a>> : a \in SystemInfoArgs}
    \cup {<<n, FALSE, NoArgs>> :
            n \in {"file_processor", "example_tool", "system_info"} \cup UnknownNames}
    \cup {<<n, TRUE, ("operation" :> "read") @@ ("path" :> P(<<A, A>>))>> :
            n \in UnknownNames}

-----------------------------------------------------------------------------
(* The server                                                              *)

NoRequest == [method |-> "none"]

\* the slots of the requests in flight, and a slot that holds none
Slots == 1..MaxInFlight
Idle == [state |-> "idle"]
NoneInFlight == [s \in Slots |-> Idle]

\* the state once new ExtensionServer() has returned and start() has
\* connected the transport
Init ==
  /\ env \in EnvValues
  /\ tools = registerAllTools(<<>>, registerTools).tools
  /\ running = TRUE
  /\ exitCause = "none"
  /\ request = NoRequest
  /\ response = <<>>
  /\ executed = <<>>
  /\ bodyRan = FALSE
  /\ guard = <<>>
  /\ fsCalls = <<>>
  /\ envelope = <<>>
  /\ thrown = NoError
  /\ caught = NoError
  /\ faulted = FALSE
  /\ phase = "connected"
  /\ startEnv = env
  /\ declared = registerTools
  /\ pending = NoneInFlight

\* the ListToolsRequestSchema handler
ListTools ==
  /\ running
  /\ request = NoRequest
  /\ request' = [method |-> "tools/list"]
  /\ response' = <<ListResult(tools)>>
  /\ executed' = <<>>
  /\ bodyRan' = FALSE
  /\ guard' = <<>>
  /\ fsCalls' = <<>>
  /\ envelope' = <<>>
  /\ thrown' = NoError
  /\ caught' = NoError
  /\ UNCHANGED <<env, tools, running, exitCause, faulted>>
  /\ UNCHANGED <<phase, startEnv, declared, pending>>

\* what the CallTool handler does for a request: its outcomes, and what the
\* execute it ran (if any) did
NotFound(name) ==
  [handled |-> ToolNotFound(name), executed |-> <<>>, body |-> FALSE, guard |-> <<>>,
   fs |-> <<>>, envelope |-> <<>>, thrown |-> NoError, caught |-> NoError,
   fault |-> FALSE]

Ran(tool, x) ==
  [handled |-> RunTool(x), executed |-> <<tool.name.v>>, body |-> x.body,
   guard |-> x.guard, fs |-> x.fs,
   envelope |-> IF x.threw THEN <<>> ELSE <<x.envelope>>,
   thrown |-> x.err, caught |-> IF x.threw THEN NoError ELSE x.cause,
   fault |-> (x.threw \/ ~x.envelope.success)]

Dispatch(registry, name, args, e) ==
  IF ~MapHas(registry, name) THEN NotFound(name)
  ELSE Ran(registry[IndexOf(registry, name)],
           Execute(registry[IndexOf(registry, name)].execute.v, args, e))

\* the CallToolRequestSchema handler
CallTool(name, given, args) ==
  /\ running
  /\ request = NoRequest
  /\ request' = [method |-> "tools/call", name |-> name, given |-> given, args |-> args]
  /\ \E d \in {Dispatch(tools, name, IF given THEN args ELSE NoArgs, env)} :
       /\ response' = d.handled.outcomes
       /\ running' = ~d.handled.exit
       /\ exitCause' = IF d.handled.exit THEN "exit(1)" ELSE exitCause
       /\ executed' = d.executed
       /\ bodyRan' = d.body
       /\ guard' = d.guard
       /\ fsCalls' = d.fs
       /\ envelope' = d.envelope
       /\ thrown' = d.thrown
       /\ caught' = d.caught
       /\ faulted' = (faulted \/ d.fault)
  /\ UNCHANGED <<env, tools>>
  /\ UNCHANGED <<phase, startEnv, declared, pending>>

\* the transport hands the outcome to the host, which may then send its
\* next request
HostReceive ==
  /\ running
  /\ request # NoRequest
  /\ request' = NoRequest
  /\ response' = <<>>
  /\ executed' = <<>>
  /\ bodyRan' = FALSE
  /\ guard' = <<>>
  /\ fsCalls' = <<>>
  /\ envelope' = <<>>
  /\ thrown' = NoError
  /\ caught' = NoError
  /\ UNCHANGED <<env, tools, running, exitCause, faulted>>
  /\ UNCHANGED <<phase, startEnv, declared, pending>>

\* the SIGINT and SIGTERM listeners: process.exit(0); what was in flight is
\* lost with the process
Signal(sig) ==
  /\ running
  /\ running' = FALSE
  /\ exitCause' = sig
  /\ request' = NoRequest
  /\ response' = <<>>
  /\ executed' = <<>>
  /\ bodyRan' = FALSE
  /\ guard' = <<>>
  /\ fsCalls' = <<>>
  /\ envelope' = <<>>
  /\ thrown' = NoError
  /\ caught' = NoError
  /\ UNCHANGED <<env, tools, faulted>>
  /\ UNCHANGED <<phase, startEnv, declared, pending>>

Next ==
  \/ ListTools
  \/ \E r \in CallRequests : CallTool(r[1], r[2], r[3])
  \/ HostReceive
  \/ \E sig \in {"SIGINT", "SIGTERM"} : Signal(sig)

Spec == Init /\ [][Next]_vars

-----------------------------------------------------------------------------
(* The life of the server object: construction, start, registration at run *)
(* time and changes of the environment, as main() and the tests drive it   *)

\* the descriptors of test_server.js, and others a caller may hand to
\* registerTool
testTool ==
  [name |-> Str("test_tool"), description |-> Str("A test tool"),
   inputSchema |-> Obj("test_tool schema"), execute |-> Fn("test_tool")]
invalidTool == [name |-> Str("invalid_tool")]
toolWithoutExecute ==
  [name |-> Str("no_execute_tool"), description |-> Str("A tool without execute"),
   inputSchema |-> Obj("no_execute_tool schema")]

\* a descriptor without a name
namelessTool ==
  [description |-> Str("nameless"), inputSchema |-> Obj("nameless schema"),
   execute |-> Fn("test_tool")]

\* a descriptor under a registered name whose execute is not a function
exampleToolWrongType == [exampleTool EXCEPT !.execute = Str("not a function")]

\* a well-formed descriptor under a registered name
exampleToolAgain ==
  [exampleTool EXCEPT !.description = Str("example_tool replaced"),
                      !.execute = Fn("test_tool")]

\* a well-formed descriptor with a property toolSchema does not know
testToolWithExtra == testTool @@ [version |-> Str("1.0.0")]

Descriptors ==
  {testTool, invalidTool, toolWithoutExecute, namelessTool, exampleToolWrongType,
   exampleToolAgain, testToolWithExtra}

\* the arrays registerTools() may be written with: the one of the repository,
\* one whose second tool has no inputSchema, one whose third has no execute,
\* one whose first has an execute that is not a function
ToolLists ==
  { registerTools,
    <<exampleTool, [f \in {"name", "description", "execute"} |-> fileProcessorTool[f]],
      systemInfoTool>>,
    <<exampleTool, fileProcessorTool,
      [f \in {"name", "description", "inputSchema"} |-> systemInfoTool[f]]>>,
    <<exampleToolWrongType, fileProcessorTool, systemInfoTool>> }

\* !process.env.ALLOWED_PATHS is false
EnvPresent(e) == e.defined /\ Len(e.value) > 0

\* the requests of the host in this part of the model
LifeRequests ==
  { <<"file_processor", TRUE, ("operation" :> "stats") @@ ("path" :> P(<<A, A>>))>>,
    <<"file_processor", TRUE, ("operation" :> "stats") @@ ("path" :> P(<<AB, A>>))>>,
    <<"example_tool", TRUE, ("action" :> "greet")>>,
    <<"example_tool", FALSE, NoArgs>>,
    <<"test_tool", TRUE, NoArgs>>,
    <<"no_such_tool", TRUE, NoArgs>> }

InitLife ==
  /\ env \in EnvValues
  /\ declared \in ToolLists
  /\ tools = <<>>
  /\ running = FALSE
  /\ exitCause = "none"
  /\ request = NoRequest
  /\ response = <<>>
  /\ executed = <<>>
  /\ bodyRan = FALSE
  /\ guard = <<>>
  /\ fsCalls = <<>>
  /\ envelope = <<>>
  /\ thrown = NoError
  /\ caught = NoError
  /\ faulted = FALSE
  /\ phase = "boot"
  /\ startEnv = env
  /\ pending = NoneInFlight

\* new ExtensionServer() as the tests call it: the constructor returns the
\* server or throws what registerAllTools throws
Construct ==
  /\ phase = "boot"
  /\ exitCause = "none"
  /\ request = NoRequest
  /\ request' = [method |-> "new ExtensionServer"]
  /\ \E c \in {Constructed(declared)} :
       /\ tools' = c.tools
       /\ thrown' = c.err
       /\ phase' = IF c.ok THEN "constructed" ELSE "failed"
  /\ startEnv' = env
  /\ UNCHANGED <<env, running, exitCause, response, executed, bodyRan, guard, fsCalls,
                 envelope, caught, faulted, declared, pending>>

\* main() up to its await: the check of ALLOWED_PATHS, new ExtensionServer()
\* and the call of start(); what it throws ends the process with status 1
Main ==
  /\ phase = "boot"
  /\ exitCause = "none"
  /\ request = NoRequest
  /\ request' = [method |-> "main"]
  /\ \/ /\ ~EnvPresent(env)
        /\ thrown' = Err("Error", "ALLOWED_PATHS environment variable is required",
                         <<>>, Undefined)
        /\ exitCause' = "exit(1)"
        /\ phase' = "failed"
        /\ UNCHANGED tools
     \/ /\ EnvPresent(env)
        /\ \E c \in {Constructed(declared)} :
             /\ tools' = c.tools
             /\ thrown' = c.err
             /\ phase' = IF c.ok THEN "constructed" ELSE "failed"
             /\ exitCause' = IF c.ok THEN exitCause ELSE "exit(1)"
  /\ startEnv' = env
  /\ UNCHANGED <<env, running, response, executed, bodyRan, guard, fsCalls,
                 envelope, caught, faulted, declared, pending>>

\* start(): server.connect(transport) resolves, or rejects and the catch of
\* start() ends the process with status 1
Start(connects) ==
  /\ phase = "constructed"
  /\ exitCause = "none"
  /\ request.method \in {"none", "main"}
  /\ request' = NoRequest
  /\ thrown' = NoError
  /\ phase' = IF connects THEN "connected" ELSE phase
  /\ running' = connects
  /\ exitCause' = IF connects THEN exitCause ELSE "exit(1)"
  /\ UNCHANGED <<env, tools, response, executed, bodyRan, guard, fsCalls, envelope,
                 caught, faulted, startEnv, declared, pending>>

\* server.registerTool(tool), called on a server that exists
RegisterTool(tool) ==
  /\ phase \in {"constructed", "connected"}
  /\ exitCause = "none"
  /\ request = NoRequest
  /\ request' = [method |-> "registerTool", tool |-> tool]
  /\ \E r \in {registerTool(tools, tool)} :
       /\ tools' = r.tools
       /\ thrown' = r.err
  /\ UNCHANGED <<env, running, exitCause, response, executed, bodyRan, guard, fsCalls,
                 envelope, caught, faulted, phase, startEnv, declared, pending>>

\* the caller of the constructor or of registerTool goes on
CallerResumes ==
  /\ exitCause = "none"
  /\ request.method \in {"new ExtensionServer", "registerTool"}
  /\ request' = NoRequest
  /\ thrown' = NoError
  /\ UNCHANGED <<env, tools, running, exitCause, response, executed, bodyRan, guard,
                 fsCalls, envelope, caught, faulted, phase, startEnv, declared, pending>>

\* process.env.ALLOWED_PATHS is assigned or deleted
SetEnv(e) ==
  /\ exitCause = "none"
  /\ request = NoRequest
  /\ e # env
  /\ env' = e
  /\ UNCHANGED <<tools, running, exitCause, request, response, executed, bodyRan, guard,
                 fsCalls, envelope, thrown, caught, faulted, phase, startEnv, declared,
                 pending>>

NextLife ==
  \/ Construct
  \/ Main
  \/ \E connects \in BOOLEAN : Start(connects)
  \/ \E tool \in Descriptors : RegisterTool(tool)
  \/ CallerResumes
  \/ \E e \in EnvValues : SetEnv(e)
  \/ ListTools
  \/ \E r \in LifeRequests : CallTool(r[1], r[2], r[3])
  \/ HostReceive
  \/ \E sig \in {"SIGINT", "SIGTERM"} : Signal(sig)

SpecLife == InitLife /\ [][NextLife]_vars

-----------------------------------------------------------------------------
(* Pipelined requests: the handlers are async functions, so a handler that  *)
(* awaits a filesystem call is suspended while other handlers run           *)

\* the requests of the host in this part of the model
PipeRequests ==
  { <<"file_processor", TRUE,
      ("operation" :> "search") @@ ("path" :> P(<<A>>)) @@ ("pattern" :> A)
        @@ ("recursive" :> TRUE)>>,
    <<"file_processor", TRUE,
      ("operation" :> "search") @@ ("path" :> P(<<A>>)) @@ ("pattern" :> A)>>,
    <<"file_processor", TRUE, ("operation" :> "stats") @@ ("path" :> P(<<A, A>>))>>,
    <<"example_tool", FALSE, NoArgs>>,
    <<"no_such_tool", TRUE, NoArgs>> }

\* the call of a slot is a search whose walk runs (it was not refused)
Searching(c) ==
  /\ c.method = "tools/call"
  /\ Len(c.plan.envelope) = 1
  /\ c.plan.envelope[1].success
  /\ "matches" \in DOMAIN c.plan.envelope[1]

\* matches.push(m) of searchRecursive, on the array another call's walk also
\* pushes to
PushMatchShared(store, s, m) ==
  [t \in DOMAIN store |->
     IF t = s \/ store[t].state = "running"
       THEN [store[t] EXCEPT !.matches = Append(@, m)]
       ELSE store[t]]

\* matches.push(m) of searchRecursive: matches is the array of this call of
\* searchFiles
PushMatch(store, s, m) == [store EXCEPT ![s].matches = Append(@, m)]

\* what the handler hands to the host once its operation is through: for a
\* search the envelope with the matches its walk has pushed
PipeOutcome(c) ==
  IF Searching(c)
    THEN ToolResult([c.plan.envelope[1] EXCEPT !.matches = c.matches,
                                               !.count = Len(c.matches)]).outcomes
    ELSE c.plan.handled.outcomes

\* a slot whose handler has nothing left to await
Settle(store, s) ==
  IF store[s].todo = <<>>
    THEN [store EXCEPT ![s].state = "done", ![s].outcome = PipeOutcome(store[s])]
    ELSE store

InitPipe ==
  /\ env \in {EnvUnset, EnvOf(P(<<A>>))}
  /\ tools = registerAllTools(<<>>, registerTools).tools
  /\ running = TRUE
  /\ exitCause = "none"
  /\ request = NoRequest
  /\ response = <<>>
  /\ executed = <<>>
  /\ bodyRan = FALSE
  /\ guard = <<>>
  /\ fsCalls = <<>>
  /\ envelope = <<>>
  /\ thrown = NoError
  /\ caught = NoError
  /\ faulted = FALSE
  /\ phase = "connected"
  /\ startEnv = env
  /\ declared = registerTools
  /\ pending = NoneInFlight

\* the CallTool handler up to its first await: the lookup, inputSchema.parse,
\* the guard; the filesystem calls of the operation are still to come
PipeCall(s, name, given, args) ==
  /\ running
  /\ pending[s] = Idle
  /\ \E d \in {Dispatch(tools, name, IF given THEN args ELSE NoArgs, env)} :
       pending' = Settle([pending EXCEPT ![s] =
                            [state |-> "running", method |-> "tools/call",
                             name |-> name, given |-> given, args |-> args,
                             plan |-> d, todo |-> d.fs, stats |-> 0,
                             matches |-> <<>>, outcome |-> <<>>]], s)
  /\ UNCHANGED <<env, tools, running, exitCause, request, response, executed, bodyRan,
                 guard, fsCalls, envelope, thrown, caught, faulted, phase, startEnv,
                 declared>>

\* a ListTools handler that also drops the newest tool from the registry
PipeListDropping(s) ==
  /\ running
  /\ pending[s] = Idle
  /\ pending' = [pending EXCEPT ![s] =
                   [state |-> "done", method |-> "tools/list", todo |-> <<>>,
                    matches |-> <<>>, outcome |-> <<ListResult(tools)>>]]
  /\ tools' = SubSeq(tools, 1, Len(tools) - 1)
  /\ UNCHANGED <<env, running, exitCause, request, response, executed, bodyRan,
                 guard, fsCalls, envelope, thrown, caught, faulted, phase, startEnv,
                 declared>>

\* the ListTools handler: it awaits nothing
PipeList(s) ==
  /\ running
  /\ pending[s] = Idle
  /\ pending' = [pending EXCEPT ![s] =
                   [state |-> "done", method |-> "tools/list", todo |-> <<>>,
                    matches |-> <<>>, outcome |-> <<ListResult(tools)>>]]
  /\ UNCHANGED <<env, tools, running, exitCause, request, response, executed, bodyRan,
                 guard, fsCalls, envelope, thrown, caught, faulted, phase, startEnv,
                 declared>>

\* the filesystem call a handler awaits completes and the handler runs on to
\* its next await or to its end; after an fs.stat of its walk a search pushes
\* the match of that entry
PipeStep(s) ==
  /\ running
  /\ pending[s].state = "running"
  /\ pending[s].todo # <<>>
  /\ \E c \in {[pending[s] EXCEPT !.todo = Tail(@),
                  !.stats = IF Head(pending[s].todo).fn = "stat" THEN @ + 1 ELSE @]} :
       pending' =
         Settle(IF Searching(c) /\ Head(pending[s].todo).fn = "stat"
                  THEN PushMatch([pending EXCEPT ![s] = c], s,
                                 c.plan.envelope[1].matches[c.stats])
                  ELSE [pending EXCEPT ![s] = c], s)
  /\ UNCHANGED <<env, tools, running, exitCause, request, response, executed, bodyRan,
                 guard, fsCalls, envelope, thrown, caught, faulted, phase, startEnv,
                 declared>>

\* the host receives the outcome of a request
PipeDeliver(s) ==
  /\ running
  /\ pending[s].state = "done"
  /\ pending' = [pending EXCEPT ![s] = Idle]
  /\ UNCHANGED <<env, tools, running, exitCause, request, response, executed, bodyRan,
                 guard, fsCalls, envelope, thrown, caught, faulted, phase, startEnv,
                 declared>>

NextPipe ==
  \/ \E s \in Slots : \E r \in PipeRequests : PipeCall(s, r[1], r[2], r[3])
  \/ \E s \in Slots : PipeList(s)
  \/ \E s \in Slots : PipeStep(s)
  \/ \E s \in Slots : PipeDeliver(s)

SpecPipe == InitPipe /\ [][NextPipe]_vars

-----------------------------------------------------------------------------
(* The server under any process environment: system_info requests          *)

\* the state once start() has connected the transport, the process having
\* been started with any of the process environments
InitEnv ==
  /\ env \in ProcessEnvs
  /\ tools = registerAllTools(<<>>, registerTools).tools
  /\ running = TRUE
  /\ exitCause = "none"
  /\ request = NoRequest
  /\ response = <<>>
  /\ executed = <<>>
  /\ bodyRan = FALSE
  /\ guard = <<>>
  /\ fsCalls = <<>>
  /\ envelope = <<>>
  /\ thrown = NoError
  /\ caught = NoError
  /\ faulted = FALSE
  /\ phase = "connected"
  /\ startEnv = env
  /\ declared = registerTools
  /\ pending = NoneInFlight

NextEnv ==
  \/ \E a \in SystemInfoArgs : CallTool("system_info", TRUE, a)
  \/ CallTool("system_info", FALSE, NoArgs)
  \/ HostReceive

SpecEnv == InitEnv /\ [][NextEnv]_vars

-----------------------------------------------------------------------------
(* Notions the claims are stated with                                      *)

\* the request in flight is a tools/call
IsCall == request.method = "tools/call"

\* the arguments the dispatcher handed to execute: args || {}
PassedArgs == IF request.given THEN request.args ELSE NoArgs

\* the single outcome of the request in flight
Outcome == response[1]

\* the resolved allow-list roots of an environment
Roots(e) ==
  {Resolve(Trim(AllowedPaths(e)[i])) : i \in 1..Len(AllowedPaths(e))}

\* the resolved path c is the root r or lies below it
Within(c, r) ==
  \/ c = r
  \/ r = <<SLASH>>
  \/ StartsWith(c, r \o <<SLASH>>)

\* the resolved path c is inside the allow-list of e
InsideAllowList(c, e) == \E r \in Roots(e) : Within(c, r)

\* the coarse classification an outcome carries: the code of a protocol
\* error, or the type or code of a failure envelope's error
Classification(o) ==
  IF o.kind = "McpError" THEN o.code
  ELSE IF o.kind = "result" /\ ~o.content[1].text.success
    THEN LET error == o.content[1].text.error
         IN  IF "type" \in DOMAIN error THEN error.type
             ELSE IF "code" \in DOMAIN error THEN error.code
             ELSE Undefined
  ELSE Undefined

\* the fields the input schema of a tool requires (no .optional(), no
\* .default())
RequiredFields(name) ==
  CASE name = "file_processor" -> {"operation", "path"}
    [] name = "example_tool"   -> {"action"}
    [] OTHER                   -> {}

\* the fields inputSchema.parse of a tool finds fault with
SchemaIssues(name, args) ==
  CASE name = "file_processor" -> FileProcessorIssues(args)
    [] name = "example_tool"   -> ExampleIssues(args)
    [] name = "system_info"    -> SystemInfoIssues(args)
    [] OTHER                   -> <<>>

\* the message an outcome carries names the field f
Names(o, f) ==
  LET arg == IF o.kind = "McpError" THEN o.message.cause.arg
             ELSE IF ~o.content[1].text.success
               THEN o.content[1].text.error.message.arg
             ELSE <<>>
  IN  \E i \in DOMAIN arg : arg[i] = f

\* the call in flight asks for a filesystem operation and hands it a target
\* path: a valid file_processor call (a search with its pattern), or an
\* example_tool file_info with its file_path
HasTarget ==
  /\ IsCall
  /\ \/ /\ request.name = "file_processor"
        /\ FileProcessorIssues(PassedArgs) = <<>>
        /\ PassedArgs["operation"] = "search" =>
             (Has(PassedArgs, "pattern") /\ PassedArgs["pattern"] # <<>>)
     \/ /\ request.name = "example_tool"
        /\ ExampleIssues(PassedArgs) = <<>>
        /\ PassedArgs["action"] = "file_info"
        /\ Has(PassedArgs, "file_path")
        /\ PassedArgs["file_path"] # <<>>

\* the target path of such a call
Target ==
  IF request.name = "file_processor" THEN PassedArgs["path"] ELSE PassedArgs["file_path"]

\* the fields of a tool descriptor and the JavaScript type each must have
DescriptorFields == {"name", "description", "inputSchema", "execute"}
ExpectedType(f) ==
  CASE f \in {"name", "description"} -> "string"
    [] f = "inputSchema"              -> "object"
    [] f = "execute"                  -> "function"

\* the fields of a descriptor that are missing or wrongly typed
Offending(tool) ==
  {f \in DescriptorFields : f \notin DOMAIN tool \/ tool[f].t # ExpectedType(f)}

\* this step is a call of registerTool
RegisterStep == request.method # "registerTool" /\ request'.method = "registerTool"

\* some descriptor of the array registerTools() is written with is malformed
AnyMalformed == \E i \in 1..Len(declared) : Offending(declared[i]) # {}

-----------------------------------------------------------------------------
(* Claims                                                                  *)

\* C1: every tool call yields exactly one outcome for the host, a result or
\* a classified protocol error; when the tool's execute threw, the outcome is
\* the InternalError that wraps the thrown error's message, never the thrown
\* error itself.
C1_OneClassifiedOutcome ==
  IsCall =>
    /\ Len(response) = 1
    /\ Outcome.kind \in {"result", "McpError"}
    /\ thrown # NoError =>
         /\ Outcome.kind = "McpError"
         /\ Outcome.code = "InternalError"
         /\ Outcome.message.text = "Tool execution failed: "
         /\ Outcome.message.cause = thrown.message

\* C1 witness: a call whose execute threw was answered with an InternalError
C1_Witness ==
  /\ IsCall
  /\ thrown # NoError
  /\ Len(response) = 1
  /\ Outcome.kind = "McpError"

\* C2: a call to a name that is not in the registry fails with
\* MethodNotFound, and no execute ran: no operation body, no guard call, no
\* filesystem call, no envelope.
C2_UnknownToolNotFound ==
  (IsCall /\ ~MapHas(tools, request.name)) =>
    /\ Len(response) = 1
    /\ Outcome.kind = "McpError"
    /\ Outcome.code = "MethodNotFound"
    /\ executed = <<>>
    /\ ~bodyRan
    /\ guard = <<>>
    /\ fsCalls = <<>>
    /\ envelope = <<>>

\* C2 witness: an unregistered name was called with arguments that would
\* read a file
C2_Witness ==
  /\ IsCall
  /\ request.name \in UnknownNames
  /\ request.given
  /\ Has(request.args, "path")
  /\ Len(response) = 1

\* C3: a call to a registered tool that leaves out a required field f
\* (file_processor: operation, path; example_tool: action) is answered with a
\* failure classified ValidationError whose message names f, and nothing of
\* the operation ran: no body, no filesystem call.
C3_MissingFieldValidationError ==
  (IsCall /\ MapHas(tools, request.name)) =>
    \A f \in RequiredFields(request.name) :
      ~Has(PassedArgs, f) =>
        /\ Classification(Outcome) = "ValidationError"
        /\ Names(Outcome, f)
        /\ ~bodyRan
        /\ fsCalls = <<>>

\* C4: the guard denies every path whose resolved form is an allowed root
\* followed by a text that does not start with a separator, unless the path
\* is inside some allowed root.
C4_PrefixWithoutBoundaryDenied ==
  \A i \in DOMAIN guard : \A R \in Roots(env) :
    LET c == Resolve(guard[i].path)
    IN  ( /\ StartsWith(c, R)
          /\ Len(c) > Len(R)
          /\ c[Len(R) + 1] # SLASH
          /\ ~InsideAllowList(c, env) ) => ~guard[i].allowed

\* C5: the guard denies every path written as an allowed root followed by
\* /.. and more whose resolved place is outside every allowed root.
C5_DotDotEscapeDenied ==
  \A i \in DOMAIN guard : \A R \in Roots(env) :
    ( /\ StartsWith(guard[i].path, R \o <<SLASH>> \o DOTDOT)
      /\ ~InsideAllowList(Resolve(guard[i].path), env) ) => ~guard[i].allowed

\* C6: the guard answers true exactly when the resolved path is an allowed
\* root or lies below one.
C6_AllowedIffWithinRoot ==
  \A i \in DOMAIN guard :
    guard[i].allowed <=> InsideAllowList(Resolve(guard[i].path), env)

\* C7: a filesystem operation (read, list, search, stats, file_info) whose
\* target is outside the allow-list returns a failure envelope whose message
\* is the access-denied one, and made no filesystem call.
C7_OutsideDeniedBeforeFs ==
  (HasTarget /\ ~InsideAllowList(Resolve(Target), env)) =>
    /\ Len(envelope) = 1
    /\ ~envelope[1].success
    /\ envelope[1].error.message = AccessDenied(Target).message
    /\ fsCalls = <<>>

\* C8: once a tool's execute has thrown or returned a failure, the process
\* is still running unless a signal ended it, and every request the host
\* sends afterwards (a list request or a call of any tool) is served with one
\* outcome and leaves the process running.
C8_FaultLeavesServerUp ==
  /\ [](faulted => (running \/ exitCause \in {"SIGINT", "SIGTERM"}))
  /\ [][(faulted /\ request = NoRequest /\ request' # NoRequest) =>
         (running' /\ Len(response') = 1)]_vars

\* C8 witness: after a faulty call, a later call was served with a success
\* envelope
C8_Witness ==
  /\ faulted
  /\ running
  /\ IsCall
  /\ Len(envelope) = 1
  /\ envelope[1].success
  /\ Len(response) = 1
  /\ Outcome.kind = "result"

\* C9: execute never throws: it resolves to an envelope for every argument
\* mapping, and for arguments its schema refuses (an enum value outside the
\* set, a missing required field) the envelope has success false and an error.
C9_ExecuteNeverThrows ==
  (IsCall /\ executed # <<>>) =>
    /\ thrown = NoError
    /\ Len(envelope) = 1
    /\ SchemaIssues(request.name, PassedArgs) # <<>> =>
         /\ ~envelope[1].success
         /\ "error" \in DOMAIN envelope[1]

\* C10: every failure envelope has the message of the error that was caught,
\* a defined classification under error.code or error.type, and nothing else
\* (no stack).
C10_FailureEnvelopeClassified ==
  (Len(envelope) = 1 /\ ~envelope[1].success) =>
    /\ envelope[1].error.message = caught.message
    /\ DOMAIN envelope[1].error \subseteq {"message", "code", "type"}
    /\ \/ /\ "code" \in DOMAIN envelope[1].error
          /\ envelope[1].error.code # Undefined
       \/ /\ "type" \in DOMAIN envelope[1].error
          /\ envelope[1].error.type # Undefined

\* C11: registerTool throws for every descriptor in which name, description,
\* inputSchema or execute is missing or wrongly typed; the message is the
\* "Invalid tool configuration" one and lists every offending field; the
\* registry is left as it was.
C11_MalformedRejected ==
  [][(RegisterStep /\ Offending(request'.tool) # {}) =>
       /\ thrown'.message.text = "Invalid tool configuration for \"%s\": %s"
       /\ Offending(request'.tool) \subseteq thrown'.message.arg[2]
       /\ tools' = tools]_vars

\* C11 witness: a descriptor under a registered name whose execute is not a
\* function was refused, and the entry of that name is still the old one
C11_Witness ==
  /\ request.method = "registerTool"
  /\ request.tool = exampleToolWrongType
  /\ thrown # NoError
  /\ tools[IndexOf(tools, "example_tool")] = exampleTool

\* C12: registering a well-formed descriptor under a name that is registered
\* throws nothing; afterwards the registry has the same size, one entry of
\* that name, which holds the fields of the descriptor just registered, and
\* every other entry is what it was, at the place it was.
C12_ReRegisterOverwrites ==
  [][(RegisterStep /\ Offending(request'.tool) = {}
        /\ MapHas(tools, request'.tool["name"].v)) =>
       /\ thrown' = NoError
       /\ Len(tools') = Len(tools)
       /\ Cardinality({i \in 1..Len(tools') :
                         tools'[i].name = request'.tool["name"]}) = 1
       /\ \A i \in 1..Len(tools) :
            IF tools[i].name = request'.tool["name"]
              THEN \A f \in DescriptorFields : tools'[i][f] = request'.tool[f]
              ELSE tools'[i] = tools[i]]_vars

\* C12 witness: example_tool was registered again with another description
\* and execute, and the registry holds the new descriptor in its place
C12_Witness ==
  /\ request.method = "registerTool"
  /\ request.tool = exampleToolAgain
  /\ Len(tools) >= 3
  /\ tools[1] = exampleToolAgain

\* C13: when a descriptor of the tools array is malformed, no server is
\* constructed or connected, no list or call request is served, and main
\* ends the process with status 1.
C13_MalformedRefusesStart ==
  AnyMalformed =>
    /\ phase \in {"boot", "failed"}
    /\ ~running
    /\ request.method \notin {"tools/list", "tools/call"}
    /\ request.method = "main" => exitCause = "exit(1)"

\* C13 witness: main ran with ALLOWED_PATHS set and a tools array whose second
\* descriptor is malformed; the first tool was registered before the throw
C13_Witness ==
  /\ AnyMalformed
  /\ EnvPresent(startEnv)
  /\ request.method = "main"
  /\ exitCause = "exit(1)"
  /\ Len(tools) = 1

\* C14: when ALLOWED_PATHS is absent at startup, startup ends in an error:
\* no server is constructed and none is connected.
C14_NoStartWithoutAllowedPaths ==
  (phase # "boot" /\ ~EnvPresent(startEnv)) => phase = "failed"

\* C15: the guard decides by the allow-list of process start: every decision
\* is the one the guard gives for that path under the ALLOWED_PATHS the server
\* was constructed with, whatever the variable holds now.
C15_AllowListFixedAtStart ==
  \A i \in DOMAIN guard :
    guard[i].allowed = isPathAllowed(guard[i].path, startEnv)

\* C16: once the server is constructed, the registry is the one construction
\* left: the same names, the same descriptors.
C16_RegistryFixedAfterStartup ==
  phase \in {"constructed", "connected"} => tools = Constructed(declared).tools

\* C19: the list result has one item for every registered tool, in the order
\* of the registry, with exactly the fields name, description and
\* inputSchema of that tool; execute is not in it.
C19_ListExposesMetadataOnly ==
  request.method = "tools/list" =>
    /\ Len(response) = 1
    /\ Len(Outcome.tools) = Len(tools)
    /\ \A i \in 1..Len(tools) :
         /\ DOMAIN Outcome.tools[i] = {"name", "description", "inputSchema"}
         /\ \A f \in DOMAIN Outcome.tools[i] : Outcome.tools[i][f] = tools[i][f].v

\* C19 witness: a list of four tools, example_tool re-registered and
\* test_tool added at run time
C19_Witness ==
  /\ request.method = "tools/list"
  /\ Len(response) = 1
  /\ Len(Outcome.tools) = 4
  /\ Outcome.tools[1].description = "example_tool replaced"
  /\ Outcome.tools[4].name = "test_tool"

\* C20: when the constructor returns, the registry has as many entries as
\* registerTools() returned tools, and every returned tool is the entry of
\* its name.
C20_ConstructedRegistryIsRegisterTools ==
  [][(phase = "boot" /\ phase' = "constructed") =>
       /\ Len(tools') = Len(declared)
       /\ \A i \in 1..Len(declared) :
            /\ MapHas(tools', declared[i].name.v)
            /\ tools'[IndexOf(tools', declared[i].name.v)] = declared[i]]_vars

\* C20 witness: the constructor has just returned with the three tools
C20_Witness ==
  /\ phase = "constructed"
  /\ request.method = "new ExtensionServer"
  /\ Len(tools) = 3
  /\ tools = declared

\* C17: when calls are in flight together, the outcome of each is the one the
\* call gives when it runs alone; a step of one handler changes nothing of
\* another call in flight; no handler changes the registry or the allow-list.
C17_ConcurrentCallsIndependent ==
  /\ [](\A s \in Slots :
          (pending[s].state = "done" /\ pending[s].method = "tools/call") =>
            pending[s].outcome =
              Dispatch(tools, pending[s].name,
                       IF pending[s].given THEN pending[s].args ELSE NoArgs,
                       env).handled.outcomes)
  /\ [][/\ \A s, t \in Slots :
             (s # t /\ pending'[s] # pending[s]) => pending'[t] = pending[t]
        /\ tools' = tools
        /\ env' = env]_vars

\* C17 witness: two searches are suspended in the middle of their walks, each
\* with a match pushed, and the paths they search differ
C17_Witness ==
  \E s, t \in Slots :
    /\ s # t
    /\ pending[s].state = "running" /\ pending[t].state = "running"
    /\ pending[s].matches # <<>> /\ pending[t].matches # <<>>
    /\ pending[s].todo # <<>> /\ pending[t].todo # <<>>
    /\ pending[s].args # pending[t].args

\* C18: two list requests answered with no registration between them get the
\* same tools in the same order, and a list request leaves the registry as it
\* was.
C18_ListIdempotent ==
  /\ [](\A s, t \in Slots :
          (pending[s].state = "done" /\ pending[s].method = "tools/list"
             /\ pending[t].state = "done" /\ pending[t].method = "tools/list") =>
            pending[s].outcome = pending[t].outcome)
  /\ [][\A s \in Slots :
          (pending[s] = Idle /\ pending'[s].state = "done"
             /\ pending'[s].method = "tools/list") => tools' = tools]_vars

\* C18 witness: two list requests have been answered, each with three tools
C18_Witness ==
  \E s, t \in Slots :
    /\ s # t
    /\ pending[s].state = "done" /\ pending[s].method = "tools/list"
    /\ pending[t].state = "done" /\ pending[t].method = "tools/list"
    /\ Len(pending[s].outcome[1].tools) = 3

\* the call in flight is a valid file_processor call of the operation op
FileOp(op) ==
  /\ IsCall
  /\ request.name = "file_processor"
  /\ FileProcessorIssues(PassedArgs) = <<>>
  /\ PassedArgs["operation"] = op

\* C21: for every allowed path that does not exist, file_processor stats
\* returns success = true with exists = false, and file_processor read
\* returns success = false with an error.
C21_AbsenceIsDataForStats ==
  \A op \in {"stats", "read"} :
    ( /\ FileOp(op)
      /\ InsideAllowList(Resolve(Target), env)
      /\ ~Lookup(Target).ok ) =>
        /\ Len(envelope) = 1
        /\ op = "stats" => (envelope[1].success /\ ~envelope[1].exists)
        /\ op = "read" => (~envelope[1].success /\ "error" \in DOMAIN envelope[1])

\* the file the target of the call in flight names, if it names one
TargetIsFile == Lookup(Target).ok /\ FS[Lookup(Target).at].type = "file"
TargetSize == FS[Lookup(Target).at].size

\* some filesystem call of the request in flight was a call of fn
Called(fn) == \E i \in DOMAIN fsCalls : fsCalls[i].fn = fn

\* C22: a file_processor read of an allowed existing file returns content
\* only when the file's size is at most max_size (1048576 when omitted); when
\* the size exceeds max_size the result is a failure whose message is the
\* "exceeds maximum" one and fs.readFile is never called.
C22_ReadBoundedByMaxSize ==
  (FileOp("read") /\ InsideAllowList(Resolve(Target), env) /\ TargetIsFile) =>
    LET maxSize == IF Has(PassedArgs, "max_size") THEN PassedArgs["max_size"]
                   ELSE 1048576
    IN  /\ Len(envelope) = 1
        /\ TargetSize > maxSize =>
             /\ ~envelope[1].success
             /\ envelope[1].error.message.text =
                  "File size (%s) exceeds maximum allowed size (%s)"
             /\ ~Called("readFile")
        /\ (envelope[1].success /\ "content" \in DOMAIN envelope[1]) =>
             TargetSize <= maxSize

\* a read with max_size omitted of an allowed file larger than the default
C22_Witness ==
  /\ FileOp("read")
  /\ InsideAllowList(Resolve(Target), env)
  /\ TargetIsFile
  /\ ~Has(PassedArgs, "max_size")
  /\ TargetSize > 1048576
  /\ fsCalls = <<FsCall("stat", Target)>>
  /\ ~envelope[1].success

\* the call in flight is a valid example_tool call of the action a
ExampleCall(a) ==
  /\ IsCall
  /\ request.name = "example_tool"
  /\ ExampleIssues(PassedArgs) = <<>>
  /\ PassedArgs["action"] = a

\* the request in flight got a failure envelope with the message text, and
\* neither a path check nor a filesystem call was made for it
FailedBeforeWork(text) ==
  /\ Len(envelope) = 1
  /\ ~envelope[1].success
  /\ envelope[1].error.message.text = text
  /\ guard = <<>>
  /\ fsCalls = <<>>

\* C23: a file_processor search whose pattern is omitted fails with the
\* "pattern is required" message, and an example_tool file_info whose
\* file_path is omitted fails with the "file_path is required" message; in
\* both cases no path check and no filesystem call is made.
C23_ConditionallyRequiredField ==
  /\ (FileOp("search") /\ ~Has(PassedArgs, "pattern")) =>
       FailedBeforeWork("pattern is required for search operation")
  /\ (ExampleCall("file_info") /\ ~Has(PassedArgs, "file_path")) =>
       FailedBeforeWork("file_path is required for file_info action")

\* a search without pattern of a path outside the allow-list: the failure
\* is the missing pattern, not the denial
C23_Witness ==
  /\ FileOp("search")
  /\ ~Has(PassedArgs, "pattern")
  /\ ~isPathAllowed(PassedArgs["path"], env)
  /\ FailedBeforeWork("pattern is required for search operation")

\* the arguments of the call in flight with every omitted optional field of
\* file_processor written out
WithFileDefaults ==
  PassedArgs @@ [recursive |-> FALSE, max_size |-> 1048576, encoding |-> "utf8"]

\* C24: a system_info call without category succeeds and reports category
\* "overview", and without detailed reports detailed = false; a valid
\* file_processor call gives the result of the same call with recursive =
\* false, max_size = 1048576 and encoding = "utf8" written out for the fields
\* it omits, and its result reports these values.
C24_DefaultsApplied ==
  /\ (IsCall /\ request.name = "system_info" /\ SystemInfoIssues(PassedArgs) = <<>>) =>
       /\ Len(envelope) = 1
       /\ envelope[1].success
       /\ ~Has(PassedArgs, "category") => envelope[1].category = "overview"
       /\ ~Has(PassedArgs, "detailed") => envelope[1].detailed = FALSE
  /\ (IsCall /\ request.name = "file_processor" /\ FileProcessorIssues(PassedArgs) = <<>>) =>
       /\ envelope = <<FileProcessorExecute(WithFileDefaults, env).envelope>>
       /\ fsCalls = FileProcessorExecute(WithFileDefaults, env).fs
       /\ (envelope[1].success /\ ~Has(PassedArgs, "recursive")
             /\ "recursive" \in DOMAIN envelope[1]) => envelope[1].recursive = FALSE
       /\ (envelope[1].success /\ ~Has(PassedArgs, "encoding")
             /\ "encoding" \in DOMAIN envelope[1]) => envelope[1].encoding = "utf8"

\* a list without recursive of an allowed directory that has a
\* subdirectory: only the directory itself was read
C24_Witness ==
  /\ FileOp("list")
  /\ ~Has(PassedArgs, "recursive")
  /\ envelope[1].success
  /\ envelope[1].recursive = FALSE
  /\ envelope[1].summary.directories > 0
  /\ fsCalls[2] = FsCall("readdir", Target)
  /\ \A i \in DOMAIN fsCalls : i > 2 => fsCalls[i].fn = "stat"

\* the text sub occurs in the text t
Contains(t, sub) ==
  \E k \in 0..(Len(t) - Len(sub)) : \A i \in 1..Len(sub) : t[k + i] = sub[i]

\* the call in flight is a valid system_info call of the environment category
EnvironmentCall ==
  /\ IsCall
  /\ request.name = "system_info"
  /\ SystemInfoIssues(PassedArgs) = <<>>
  /\ Has(PassedArgs, "category")
  /\ PassedArgs["category"] = "environment"

\* the names under which the text of the variable k appears in
\* result.data.variables
AppearsUnder(k) ==
  {n \in DOMAIN envelope[1].data.variables :
     Contains(envelope[1].data.variables[n], env.others[k])}

\* C25 as stated: for either value of detailed, result.data.variables has
\* entries only for the safe names, and the value of no other environment
\* variable appears in it.
C25_OnlySafeVariables ==
  EnvironmentCall =>
    /\ Len(envelope) = 1
    /\ envelope[1].success
    /\ DOMAIN envelope[1].data.variables \subseteq SafeEnvNames
    /\ \A k \in DOMAIN env.others \ SafeEnvNames : AppearsUnder(k) = {}

\* C25 amended: result.data.variables has entries only for the safe names;
\* the value of USERNAME appears in it only as the USER entry and only when
\* USER is unset or empty, and the value of no variable other than the safe
\* names and USERNAME appears in it.
C25_OnlySafeVariablesOrUsername ==
  EnvironmentCall =>
    /\ Len(envelope) = 1
    /\ envelope[1].success
    /\ DOMAIN envelope[1].data.variables \subseteq SafeEnvNames
    /\ \A k \in DOMAIN env.others \ (SafeEnvNames \cup {"USERNAME"}) :
         AppearsUnder(k) = {}
    /\ "USERNAME" \in DOMAIN env.others =>
         /\ AppearsUnder("USERNAME") \subseteq {"USER"}
         /\ AppearsUnder("USERNAME") # {} =>
              ("USER" \notin DOMAIN env.others \/ env.others["USER"] = <<>>)

\* a detailed report of an environment that holds a password and a key, and
\* USERNAME but no USER: the USER entry carries USERNAME's value
C25_Witness ==
  /\ EnvironmentCall
  /\ envelope[1].detailed
  /\ {"DB_PASSWORD", "API_KEY", "USERNAME", "PATH"} \subseteq DOMAIN env.others
  /\ "USER" \notin DOMAIN env.others
  /\ envelope[1].data.variables["USER"] = env.others["USERNAME"]
  /\ envelope[1].data.variables["PATH"] = env.others["PATH"]

\* C26: a call whose tool returned an envelope with success = false is
\* answered with a normal result of one text content item that holds the
\* envelope; the outcome is a protocol error only when the name is not
\* registered (MethodNotFound, nothing executed) or when execute threw
\* (InternalError, "Tool execution failed: " followed by the thrown message).
C26_EnvelopeNotInspected ==
  IsCall =>
    /\ Len(response) = 1
    /\ Outcome.kind \in {"result", "McpError"}
    /\ (Len(envelope) = 1 /\ ~envelope[1].success) =>
         /\ Outcome.kind = "result"
         /\ Len(Outcome.content) = 1
         /\ Outcome.content[1].type = "text"
         /\ Outcome.content[1].text.success = FALSE
         /\ \A f \in DOMAIN envelope[1] \ {"error"} :
              /\ f \in DOMAIN Outcome.content[1].text
              /\ Outcome.content[1].text[f] = envelope[1][f]
         /\ Outcome.content[1].text.error.message = envelope[1].error.message
    /\ Outcome.kind = "McpError" =>
         \/ /\ Outcome.code = "MethodNotFound"
            /\ ~MapHas(tools, request.name)
            /\ executed = <<>>
         \/ /\ Outcome.code = "InternalError"
            /\ MapHas(tools, request.name)
            /\ thrown # NoError
            /\ Outcome.message = [text |-> "Tool execution failed: ",
                                  cause |-> thrown.message]

\* a file_processor call refused by the guard: the failure envelope is the
\* text of a normal result
C26_Witness ==
  /\ IsCall
  /\ request.name = "file_processor"
  /\ Len(envelope) = 1
  /\ ~envelope[1].success
  /\ envelope[1].error.message = AccessDenied(Target).message
  /\ Outcome.kind = "result"
  /\ Outcome.content[1].text.error.message = envelope[1].error.message

\* the entries of the allow-list of e that are not empty after trimming
NonEmptyEntries(e) ==
  SelectSeq(AllowedPaths(e), LAMBDA x : Trim(x) # <<>>)

\* C27: an allow-list entry that is empty after trimming grants no access:
\* the guard admits a path only on account of an entry that is not empty
\* (so what it admits for "/a," is what it admits for "/a"), and with
\* ALLOWED_PATHS unset or empty it denies every path.
C27_EmptyEntryGrantsNothing ==
  \A i \in DOMAIN guard :
    /\ guard[i].allowed =>
         \E k \in DOMAIN NonEmptyEntries(env) :
           StartsWith(Resolve(guard[i].path), Resolve(Trim(NonEmptyEntries(env)[k])))
    /\ env = EnvOf(P(<<A>>) \o <<",">>) =>
         guard[i].allowed = isPathAllowed(guard[i].path, EnvOf(P(<<A>>)))
    /\ (~env.defined \/ env.value = <<>>) => ~guard[i].allowed

\* the directory the target of the call in flight names, if it names one
TargetIsDirectory == Lookup(Target).ok /\ FS[Lookup(Target).at].type = "directory"


\* the tree below the target holds a directory at depth 11 or more
DeepDirectoryBelowTarget ==
  \E p \in Below(Lookup(Target).at) :
    FS[p].type = "directory" /\ DepthBelow(Lookup(Target).at, p) >= 11

\* the call in flight asks for recursion
AskedRecursive == Has(PassedArgs, "recursive") /\ PassedArgs["recursive"]

\* the readdir calls of the request in flight
ReaddirCalls == SelectSeq(fsCalls, LAMBDA c : c.fn = "readdir")

\* the request in flight is a list of a directory the guard admitted
ListedDirectory ==
  /\ FileOp("list")
  /\ isPathAllowed(Target, env)
  /\ TargetIsDirectory

\* what C28 says of every list but the message of a failure
ListBounded ==
  /\ Len(envelope) = 1
  /\ envelope[1].success =>
       \A i \in DOMAIN envelope[1].entries : envelope[1].entries[i].depth <= 10
  /\ (AskedRecursive /\ DeepDirectoryBelowTarget) =>
       (~envelope[1].success /\ "entries" \notin DOMAIN envelope[1])
  /\ (~AskedRecursive /\ envelope[1].success) =>
       /\ \A i \in DOMAIN envelope[1].entries : envelope[1].entries[i].depth = 0
       /\ ReaddirCalls = <<FsCall("readdir", Target)>>

\* C28 as stated: a list never returns an entry deeper than depth 10; a
\* recursive list of a tree that holds a directory at depth 11 or more fails
\* with the message "Maximum directory depth exceeded" and returns no
\* entries; a list that is not recursive returns entries of depth 0 only and
\* reads no subdirectory.
C28_ListDepthBounded ==
  ListedDirectory =>
    /\ ListBounded
    /\ (AskedRecursive /\ DeepDirectoryBelowTarget) =>
         envelope[1].error.message.text = "Maximum directory depth exceeded"

\* C28 amended: as stated, except that the failure of a recursive list of a
\* tree with a directory at depth 11 or more carries the error of the
\* fs.readdir that failed when the walk met a directory it cannot read before
\* it reached depth 11.
C28_ListDepthBoundedOrReadError ==
  ListedDirectory =>
    /\ ListBounded
    /\ (AskedRecursive /\ DeepDirectoryBelowTarget) =>
         \/ envelope[1].error.message.text = "Maximum directory depth exceeded"
         \/ /\ envelope[1].error.message =
                 FsError("readdir", fsCalls[Len(fsCalls)].path, "EACCES").message
            /\ fsCalls[Len(fsCalls)].fn = "readdir"
            /\ \A i \in DOMAIN ReaddirCalls :
                 Len(Lookup(ReaddirCalls[i].path).at) - Len(Lookup(Target).at) <= 10

\* a recursive list of a readable chain of directories that reaches depth
\* 11: the walk read the directories of depth 0 to 9 and that of depth 10,
\* and failed on the depth limit
C28_Witness ==
  /\ ListedDirectory
  /\ AskedRecursive
  /\ DeepDirectoryBelowTarget
  /\ ~envelope[1].success
  /\ envelope[1].error.message.text = "Maximum directory depth exceeded"
  /\ Len(ReaddirCalls) = 11


\* the request in flight is a search of a path the guard admitted
SearchedAllowed ==
  /\ FileOp("search")
  /\ isPathAllowed(Target, env)

\* the search in flight passes a pattern that is not empty and compiles
PatternCompiles ==
  /\ Has(PassedArgs, "pattern")
  /\ PassedArgs["pattern"] # <<>>
  /\ RegexValid(PassedArgs["pattern"])

\* the depth of the call of searchRecursive that read the directory of a
\* readdir call (0 for the search root)
ReadDepth(c) == Len(Lookup(c.path).at) - Len(Lookup(Target).at)

\* the directory that holds the place at
ParentPlace(at) == SubSeq(at, 1, Len(at) - 1)

\* what C29 says of a search
SearchBounded ==
  /\ Len(envelope) = 1
  /\ envelope[1].success
  /\ envelope[1].count = Len(envelope[1].matches)
  /\ Len(ReaddirCalls) >= 1 /\ ReaddirCalls[1].path = Target
  /\ \A i \in 2..Len(ReaddirCalls) :
       Lookup(ReaddirCalls[i].path).ok /\ ReadDepth(ReaddirCalls[i]) \in 1..10
  /\ ~Readdir(Target).ok =>
       (envelope[1].matches = <<>> /\ fsCalls = <<FsCall("readdir", Target)>>)
  /\ \A i \in DOMAIN envelope[1].matches :
       /\ envelope[1].matches[i].depth <= 10
       /\ Lookup(envelope[1].matches[i].full_path).ok
       /\ FS[ParentPlace(Lookup(envelope[1].matches[i].full_path).at)].readable
  /\ ~AskedRecursive =>
       /\ ReaddirCalls = <<FsCall("readdir", Target)>>
       /\ \A i \in DOMAIN envelope[1].matches : envelope[1].matches[i].depth = 0
       /\ \A i \in 2..Len(fsCalls) :
            /\ fsCalls[i].fn = "stat"
            /\ Lookup(fsCalls[i].path).ok
            /\ Len(Lookup(fsCalls[i].path).at) = Len(Lookup(Target).at) + 1

\* C29 as stated: a search of an allowed path always ends with success =
\* true and count equal to the number of matches; it reads no directory at a
\* depth greater than 10; a directory that is missing or cannot be read, the
\* search root included, gives no matches and no failure; a search that is
\* not recursive examines the entries of the search root only.
C29_SearchAlwaysSucceeds == SearchedAllowed => SearchBounded

\* C29 amended: as stated, for a search whose pattern is not empty and is a
\* valid regular expression.
C29_SearchWithPatternSucceeds == (SearchedAllowed /\ PatternCompiles) => SearchBounded

\* a recursive search of a tree deeper than the limit that holds a directory
\* it cannot read: the walk read the root, failed to read that directory,
\* read the directories of depth 1 to 10, and returned its matches
C29_Witness ==
  /\ SearchedAllowed
  /\ PatternCompiles
  /\ AskedRecursive
  /\ DeepDirectoryBelowTarget
  /\ Len(ReaddirCalls) = 12
  /\ \E i \in DOMAIN ReaddirCalls : ~Readdir(ReaddirCalls[i].path).ok
  /\ envelope[1].success
  /\ envelope[1].count = 2


\* the request in flight is a list that succeeded
ListSucceeded ==
  /\ FileOp("list")
  /\ Len(envelope) = 1
  /\ envelope[1].success

\* the sizes of the first n entries that are files and have a size, added up
RECURSIVE SizesOfFiles(_, _)
SizesOfFiles(entries, n) ==
  IF n = 0 THEN 0
  ELSE SizesOfFiles(entries, n - 1)
         + (IF entries[n].type = "file" /\ "size" \in DOMAIN entries[n]
              THEN entries[n].size ELSE 0)

\* C30: in every successful list result summary.total is the number of
\* entries, summary.files + summary.directories is summary.total, every
\* entry is a file or a directory, and summary.total_size is the sum of the
\* sizes of the file entries that have a size.
C30_SummaryMatchesEntries ==
  ListSucceeded =>
    /\ envelope[1].summary.total = Len(envelope[1].entries)
    /\ envelope[1].summary.files + envelope[1].summary.directories
         = envelope[1].summary.total
    /\ envelope[1].summary.files
         = Cardinality({i \in DOMAIN envelope[1].entries :
                          envelope[1].entries[i].type = "file"})
    /\ \A i \in DOMAIN envelope[1].entries :
         envelope[1].entries[i].type \in {"file", "directory"}
    /\ envelope[1].summary.total_size
         = SizesOfFiles(envelope[1].entries, Len(envelope[1].entries))

\* a recursive list that returned directories and several files with sizes
\* from a tree that also holds a socket
C30_Witness ==
  /\ ListSucceeded
  /\ AskedRecursive
  /\ \E p \in Below(Lookup(Target).at) : FS[p].type = "socket"
  /\ envelope[1].summary.files >= 2
  /\ envelope[1].summary.directories >= 1
  /\ envelope[1].summary.total_size > envelope[1].entries[1].size
  /\ \E i \in DOMAIN envelope[1].entries : envelope[1].entries[i].depth > 0

====
